---- MODULE Spec2Model ----
(***************************************************************************)
(* Model of the SOAR architecture schema validator (src/src/lib/schema.ts) *)
(* and of the path a document takes to it: an in-memory value is written   *)
(* with JSON.stringify, read back with JSON.parse and handed to            *)
(* validateArchitecture, or its architecture to validateArchitectureOnly.  *)
(* The second part is the store of the viewer                              *)
(* (src/src/store/architectureStore.ts): its state, its actions and its    *)
(* computed helpers getNode, getNodeConnections and getVisibleNodes, and   *)
(* the component that draws the graph from it.  The third part is the      *)
(* command line (src/cli/analyze.ts in its two revisions) and the          *)
(* analyzer behind it (src/src/lib/analyzer.ts).                           *)
(*                                                                         *)
(* JavaScript values are tagged records:                                   *)
(*   [t |-> "undefined"]            [t |-> "null"]                      *)
(*   [t |-> "string",  s |-> "x"]   [t |-> "number", n |-> 3]          *)
(*   [t |-> "boolean", b |-> TRUE]  [t |-> "array",  a |-> <<..>>]      *)
(*   [t |-> "object",  o |-> f]     f a function from property names     *)
(* A number is the fraction n/d with d > 0; NaN is written 0/0, a          *)
(* coordinate on a circle is kept as its expression, and the infinities    *)
(* are outside the model.                                                  *)
(***************************************************************************)
EXTENDS Integers, Sequences, FiniteSets, TLC

VARIABLES
    input,      \* the in-memory value that is written to the wire
    defects,    \* which edits of Edits produced input from the sample
    data,       \* what JSON.parse returned: the argument of validateArchitecture
    result,     \* the ValidationResult, once the validator has returned
    pc,         \* "start" -> "parsed" -> "validated" or "validatedOnly"
    keyOrder,   \* the order in which the document's objects hold their keys
    store,      \* the state of useArchitectureStore
    query,      \* the computed helper called last and what it returned
    passed,     \* the value last passed to setArchitecture
    toggles,    \* the ids passed to toggleNodeExpanded an odd number of times
    argv,       \* process.argv.slice(2)
    env,        \* process.env: ANTHROPIC_API_KEY and GOOGLE_CLOUD_PROJECT
    revision,   \* which revision of src/cli/analyze.ts runs
    disk,       \* the file system: what is at each path that exists
    exitCode,   \* the exit code of the process, once it has exited
    stdout,     \* the lines written with console.log
    stderr,     \* the lines written with console.error or by the runtime
    writes,     \* the paths written with writeFileSync, in order
    server,     \* whether the visualization server was spawned
    analyzer,   \* the provider of the ArchitectureAnalyzer, once constructed
    requests    \* how many requests were sent to the model

docVars == <<input, defects, data, result, pc, keyOrder>>
storeVars == <<store, query, passed, toggles>>
cliVars == <<argv, env, revision, disk, exitCode, stdout, stderr, writes,
             server, analyzer, requests>>
vars == <<input, defects, data, result, pc, keyOrder, store, query, passed,
          toggles, argv, env, revision, disk, exitCode, stdout, stderr,
          writes, server, analyzer, requests>>

----------------------------------------------------------------------------
(* JavaScript values *)

JUndef == [t |-> "undefined"]
JNull == [t |-> "null"]
JStr(s) == [t |-> "string", s |-> s]
JNum(n) == [t |-> "number", n |-> n, d |-> 1]
JRat(n, d) == [t |-> "number", n |-> n, d |-> d]
JBool(b) == [t |-> "boolean", b |-> b]
JArr(a) == [t |-> "array", a |-> a]
JObj(o) == [t |-> "object", o |-> o]

EmptyObj == JObj([k \in {} |-> JUndef])

\* obj[key] in JavaScript: undefined when the property does not exist
Get(v, key) == IF key \in DOMAIN v.o THEN v.o[key] ELSE JUndef

----------------------------------------------------------------------------
(* The schema combinators used by schema.ts.  A schema is a record; an     *)
(* object's shape is the sequence of its <<key, schema>> pairs in          *)
(* declaration order.  ZLazy names the schema it defers to.                *)

ZString == [k |-> "string", min |-> 0, msg |-> ""]
\* .min(n, msg) left out
ZStringMin_NoMin(n, msg) == [k |-> "string", min |-> 0, msg |-> ""]
ZStringMin(n, msg) == [k |-> "string", min |-> n, msg |-> msg]
ZNumber == [k |-> "number", int |-> FALSE, positive |-> FALSE]
ZNumberPositive == [k |-> "number", int |-> FALSE, positive |-> TRUE]
ZNumberIntPositive == [k |-> "number", int |-> TRUE, positive |-> TRUE]
ZBoolean == [k |-> "boolean"]
ZAny == [k |-> "any"]
ZEnum(values) == [k |-> "enum", values |-> values]
ZOptional(s) == [k |-> "optional", inner |-> s]
ZArray(s) == [k |-> "array", elem |-> s, min |-> 0, msg |-> ""]
\* .min(n) written without its message
ZArrayMin_DefaultMessage(s, n, msg) == [k |-> "array", elem |-> s, min |-> n, msg |-> "Too small"]
ZArrayMin(s, n, msg) == [k |-> "array", elem |-> s, min |-> n, msg |-> msg]
ZRecord(s) == [k |-> "record", value |-> s]
ZObject(shape) == [k |-> "object", shape |-> shape]
ZLazy(name) == [k |-> "lazy", ref |-> name]

Issue(path, code, message) == [path |-> path, code |-> code, message |-> message]

----------------------------------------------------------------------------
(* schema.ts *)

\* the last member left out
NodeTypeSchema_NoCluster ==
    ZEnum({"service", "module", "class", "function", "database", "cache",
           "queue", "gateway", "external", "container", "region"})

NodeTypeSchema ==
    ZEnum({"service", "module", "class", "function", "database", "cache",
           "queue", "gateway", "external", "container", "region", "cluster"})

\* the first member left out
ConnectionTypeSchema_NoHttp ==
    ZEnum({"grpc", "websocket", "database", "queue", "import",
           "inheritance", "composition", "event"})

ConnectionTypeSchema ==
    ZEnum({"http", "grpc", "websocket", "database", "queue", "import",
           "inheritance", "composition", "event"})

HealthStatusSchema == ZEnum({"healthy", "degraded", "unhealthy", "unknown"})

Position3DSchema ==
    ZObject(<< <<"x", ZNumber>>, <<"y", ZNumber>>, <<"z", ZNumber>> >>)

NodeMetricsSchema ==
    ZObject(<< <<"requestsPerSecond", ZOptional(ZNumber)>>,
               <<"latencyMs", ZOptional(ZNumber)>>,
               <<"errorRate", ZOptional(ZNumber)>>,
               <<"cpuPercent", ZOptional(ZNumber)>>,
               <<"memoryPercent", ZOptional(ZNumber)>>,
               <<"connections", ZOptional(ZNumber)>> >>)

\* children declared as an array of anything: no recursion
ArchitectureNodeObject_ShallowChildren ==
    ZObject(<< <<"id", ZStringMin(1, "Node id is required")>>,
               <<"name", ZStringMin(1, "Node name is required")>>,
               <<"type", NodeTypeSchema>>,
               <<"description", ZOptional(ZString)>>,
               <<"position", ZOptional(Position3DSchema)>>,
               <<"color", ZOptional(ZString)>>,
               <<"size", ZOptional(ZNumberPositive)>>,
               <<"parentId", ZOptional(ZString)>>,
               <<"children", ZOptional(ZArray(ZAny))>>,
               <<"filePath", ZOptional(ZString)>>,
               <<"lineStart", ZOptional(ZNumberIntPositive)>>,
               <<"lineEnd", ZOptional(ZNumberIntPositive)>>,
               <<"technology", ZOptional(ZString)>>,
               <<"language", ZOptional(ZString)>>,
               <<"framework", ZOptional(ZString)>>,
               <<"health", ZOptional(HealthStatusSchema)>>,
               <<"metrics", ZOptional(NodeMetricsSchema)>>,
               <<"region", ZOptional(ZString)>>,
               <<"instances", ZOptional(ZNumberIntPositive)>>,
               <<"metadata", ZOptional(ZRecord(ZAny))>> >>)

ArchitectureNodeObject ==
    ZObject(<< <<"id", ZStringMin(1, "Node id is required")>>,
               <<"name", ZStringMin(1, "Node name is required")>>,
               <<"type", NodeTypeSchema>>,
               <<"description", ZOptional(ZString)>>,
               <<"position", ZOptional(Position3DSchema)>>,
               <<"color", ZOptional(ZString)>>,
               <<"size", ZOptional(ZNumberPositive)>>,
               <<"parentId", ZOptional(ZString)>>,
               <<"children", ZOptional(ZArray(ZLazy("ArchitectureNodeSchema")))>>,
               <<"filePath", ZOptional(ZString)>>,
               <<"lineStart", ZOptional(ZNumberIntPositive)>>,
               <<"lineEnd", ZOptional(ZNumberIntPositive)>>,
               <<"technology", ZOptional(ZString)>>,
               <<"language", ZOptional(ZString)>>,
               <<"framework", ZOptional(ZString)>>,
               <<"health", ZOptional(HealthStatusSchema)>>,
               <<"metrics", ZOptional(NodeMetricsSchema)>>,
               <<"region", ZOptional(ZString)>>,
               <<"instances", ZOptional(ZNumberIntPositive)>>,
               <<"metadata", ZOptional(ZRecord(ZAny))>> >>)

ArchitectureNodeSchema == ZLazy("ArchitectureNodeSchema")

ArchitectureConnectionSchema ==
    ZObject(<< <<"id", ZStringMin(1, "Connection id is required")>>,
               <<"sourceId", ZStringMin(1, "Connection sourceId is required")>>,
               <<"targetId", ZStringMin(1, "Connection targetId is required")>>,
               <<"type", ConnectionTypeSchema>>,
               <<"label", ZOptional(ZString)>>,
               <<"color", ZOptional(ZString)>>,
               <<"thickness", ZOptional(ZNumberPositive)>>,
               <<"animated", ZOptional(ZBoolean)>>,
               <<"bidirectional", ZOptional(ZBoolean)>>,
               <<"dataFlow", ZOptional(ZEnum({"request", "response", "stream", "event"}))>>,
               <<"requestsPerSecond", ZOptional(ZNumber)>>,
               <<"latencyMs", ZOptional(ZNumber)>>,
               <<"errorRate", ZOptional(ZNumber)>>,
               <<"metadata", ZOptional(ZRecord(ZAny))>> >>)

DetailLevelSchema == ZEnum({"overview", "service", "module", "code"})

LayoutSchema ==
    ZObject(<< <<"type", ZEnum({"force", "hierarchical", "radial", "manual"})>>,
               <<"spacing", ZOptional(ZNumberPositive)>>,
               <<"layers", ZOptional(ZArray(ZArray(ZString)))>> >>)

DefaultViewSchema ==
    ZObject(<< <<"position", Position3DSchema>>,
               <<"target", Position3DSchema>>,
               <<"detailLevel", DetailLevelSchema>> >>)

\* nodes declared without .min(1)
ArchitectureSchema_AnyNodes ==
    ZObject(<< <<"name", ZStringMin(1, "Architecture name is required")>>,
               <<"version", ZStringMin(1, "Architecture version is required")>>,
               <<"description", ZOptional(ZString)>>,
               <<"generatedAt", ZOptional(ZString)>>,
               <<"sourceRepository", ZOptional(ZString)>>,
               <<"nodes", ZArray(ArchitectureNodeSchema)>>,
               <<"connections", ZArray(ArchitectureConnectionSchema)>>,
               <<"layout", ZOptional(LayoutSchema)>>,
               <<"defaultView", ZOptional(DefaultViewSchema)>> >>)

ArchitectureSchema ==
    ZObject(<< <<"name", ZStringMin(1, "Architecture name is required")>>,
               <<"version", ZStringMin(1, "Architecture version is required")>>,
               <<"description", ZOptional(ZString)>>,
               <<"generatedAt", ZOptional(ZString)>>,
               <<"sourceRepository", ZOptional(ZString)>>,
               <<"nodes", ZArrayMin(ArchitectureNodeSchema, 1,
                                    "Architecture must have at least one node")>>,
               <<"connections", ZArray(ArchitectureConnectionSchema)>>,
               <<"layout", ZOptional(LayoutSchema)>>,
               <<"defaultView", ZOptional(DefaultViewSchema)>> >>)

AnalysisResultSchema ==
    ZObject(<< <<"architecture", ArchitectureSchema>>,
               <<"summary", ZString>>,
               <<"insights", ZArray(ZString)>>,
               <<"warnings", ZArray(ZString)>> >>)

\* what a z.lazy getter returns
LazySchema(name) ==
    CASE name = "ArchitectureNodeSchema" -> ArchitectureNodeObject

----------------------------------------------------------------------------
(* safeParse.  Issues(s, v, path) is the sequence of issues the library    *)
(* raises for value v against schema s, in the order it raises them: an    *)
(* object's keys in declaration order, each key's subtree before the next  *)
(* key; array elements by index.  Output(s, v) is the parsed value, which  *)
(* safeParse returns only when there is no issue.  The wording of the      *)
(* library's own messages is not modelled; the messages given in schema.ts *)
(* are.                                                                    *)

RECURSIVE Issues(_, _, _), Output(_, _), Concat(_, _, _)

\* f[lo] \o ... \o f[hi]
Concat(f, lo, hi) ==
    IF lo > hi THEN <<>>
    ELSE IF lo = hi THEN f[lo]
    ELSE LET mid == (lo + hi) \div 2
         IN  Concat(f, lo, mid) \o Concat(f, mid + 1, hi)

InvalidType(path) == <<Issue(path, "invalid_type", "Invalid input")>>

StringIssues(s, v, path) ==
    IF v.t # "string" THEN InvalidType(path)
    ELSE IF Len(v.s) < s.min THEN <<Issue(path, "too_small", s.msg)>>
    ELSE <<>>

\* .positive() taken as "not negative"
NumberIssues_NonNegative(s, v, path) ==
    IF v.t # "number" THEN InvalidType(path)
    ELSE (IF s.int /\ v.n % v.d # 0 THEN InvalidType(path) ELSE <<>>)
         \o (IF s.positive /\ ~(v.n >= 0)
             THEN <<Issue(path, "too_small", "Too small")>> ELSE <<>>)

\* the checks of a number run in the order they were chained, and each
\* raises its own issue: .int() before .positive()
NumberIssues(s, v, path) ==
    IF v.t # "number" THEN InvalidType(path)
    ELSE (IF s.int /\ v.n % v.d # 0 THEN InvalidType(path) ELSE <<>>)
         \o (IF s.positive /\ ~(v.n > 0)
             THEN <<Issue(path, "too_small", "Too small")>> ELSE <<>>)

BooleanIssues(s, v, path) ==
    IF v.t # "boolean" THEN InvalidType(path) ELSE <<>>

EnumIssues(s, v, path) ==
    IF v.t = "string" /\ v.s \in s.values THEN <<>>
    ELSE <<Issue(path, "invalid_value", "Invalid option")>>

\* z.record(z.string(), valueSchema); the only value schema in schema.ts is
\* z.any(), which raises no issue, so the order among keys does not show
RecordIssues(s, v, path) ==
    IF v.t # "object" THEN InvalidType(path) ELSE <<>>

ArrayIssues(s, v, path) ==
    IF v.t # "array" THEN InvalidType(path)
    ELSE (IF Len(v.a) < s.min THEN <<Issue(path, "too_small", s.msg)>> ELSE <<>>)
         \o Concat([i \in 1..Len(v.a) |->
                       Issues(s.elem, v.a[i], Append(path, ToString(i - 1)))],
                   1, Len(v.a))

\* walks the keys in the order the input holds them
ObjectIssues_InputKeyOrder(s, v, path) ==
    IF v.t # "object" THEN InvalidType(path)
    ELSE LET n == Len(s.shape)
             at(i) == IF keyOrder = "declared" THEN i ELSE n + 1 - i
         IN  Concat([i \in 1..n |->
                        Issues(s.shape[at(i)][2], Get(v, s.shape[at(i)][1]),
                               Append(path, s.shape[at(i)][1]))],
                    1, n)

\* stops at the first key that raises an issue
ObjectIssues_ShortCircuit(s, v, path) ==
    IF v.t # "object" THEN InvalidType(path)
    ELSE LET per == [i \in 1..Len(s.shape) |->
                        Issues(s.shape[i][2], Get(v, s.shape[i][1]),
                               Append(path, s.shape[i][1]))]
             failing == {i \in 1..Len(s.shape) : per[i] # <<>>}
         IN  IF failing = {} THEN <<>>
             ELSE per[CHOOSE i \in failing : \A j \in failing : i <= j]

ObjectIssues(s, v, path) ==
    IF v.t # "object" THEN InvalidType(path)
    ELSE Concat([i \in 1..Len(s.shape) |->
                    Issues(s.shape[i][2], Get(v, s.shape[i][1]),
                           Append(path, s.shape[i][1]))],
                1, Len(s.shape))

Issues(s, v, path) ==
    CASE s.k = "string" -> StringIssues(s, v, path)
      [] s.k = "number" -> NumberIssues(s, v, path)
      [] s.k = "boolean" -> BooleanIssues(s, v, path)
      [] s.k = "enum" -> EnumIssues(s, v, path)
      [] s.k = "any" -> <<>>
      [] s.k = "optional" -> IF v.t = "undefined" THEN <<>> ELSE Issues(s.inner, v, path)
      [] s.k = "array" -> ArrayIssues(s, v, path)
      [] s.k = "record" -> RecordIssues(s, v, path)
      [] s.k = "object" -> ObjectIssues(s, v, path)
      [] s.k = "lazy" -> Issues(LazySchema(s.ref), v, path)

ShapeKeys(shape) == {shape[i][1] : i \in 1..Len(shape)}
ShapeSchema(shape, key) == shape[CHOOSE i \in 1..Len(shape) : shape[i][1] = key][2]

\* z.object builds a new object from the keys of its shape that the input
\* has: a key the shape does not name is not copied
ObjectOutput(s, v) ==
    JObj([key \in DOMAIN v.o \cap ShapeKeys(s.shape) |->
            Output(ShapeSchema(s.shape, key), v.o[key])])

ArrayOutput(s, v) == JArr([i \in 1..Len(v.a) |-> Output(s.elem, v.a[i])])

\* a record parsed into a new object whose keys are never filled
RecordOutput_Empty(s, v) == EmptyObj

RecordOutput(s, v) == JObj([key \in DOMAIN v.o |-> Output(s.value, v.o[key])])

Output(s, v) ==
    CASE s.k = "optional" -> IF v.t = "undefined" THEN v ELSE Output(s.inner, v)
      [] s.k = "array" -> ArrayOutput(s, v)
      [] s.k = "record" -> RecordOutput(s, v)
      [] s.k = "object" -> ObjectOutput(s, v)
      [] s.k = "lazy" -> Output(LazySchema(s.ref), v)
      [] OTHER -> v

SafeParse(schema, v) ==
    LET issues == Issues(schema, v, <<>>)
    IN  IF issues = <<>>
        THEN [success |-> TRUE, data |-> Output(schema, v)]
        ELSE [success |-> FALSE, error |-> [issues |-> issues]]

----------------------------------------------------------------------------
(* formatZodErrors, validateArchitecture *)

RECURSIVE JoinPath(_)
\* Array.prototype.join('.')
JoinPath(path) ==
    IF path = <<>> THEN ""
    ELSE IF Len(path) = 1 THEN path[1]
    ELSE path[1] \o "." \o JoinPath(Tail(path))

\* (err.path || []).join('.') || 'root'
PathString(path) == IF JoinPath(path) = "" THEN "root" ELSE JoinPath(path)

\* the issues read from a property the error does not have
formatZodErrors_NoIssues(error) == <<>>

formatZodErrors(error) ==
    [i \in 1..Len(error.issues) |->
        [path |-> PathString(error.issues[i].path),
         message |-> error.issues[i].message,
         code |-> error.issues[i].code]]

RECURSIVE IdsIn(_)
\* the ids of a validated node array and of all its descendants
IdsIn(arr) ==
    IF arr.t # "array" THEN <<>>
    ELSE Concat([i \in 1..Len(arr.a) |->
                    <<arr.a[i].o.id.s>> \o IdsIn(Get(arr.a[i], "children"))],
                1, Len(arr.a))

\* validation followed by a pass that rejects duplicate node ids and edges
\* whose endpoints name no node
validateArchitecture_Referential(v) ==
    LET r == SafeParse(AnalysisResultSchema, v)
        ids == IdsIn(r.data.o.architecture.o.nodes)
        conns == r.data.o.architecture.o.connections.a
        known == {ids[i] : i \in 1..Len(ids)}
    IN  IF ~r.success
        THEN [success |-> FALSE, errors |-> formatZodErrors(r.error)]
        ELSE IF \/ \E i, j \in 1..Len(ids) : i # j /\ ids[i] = ids[j]
                \/ \E c \in 1..Len(conns) :
                       \/ conns[c].o.sourceId.s \notin known
                       \/ conns[c].o.targetId.s \notin known
        THEN [success |-> FALSE,
              errors |-> <<[path |-> "architecture", code |-> "custom",
                            message |-> "Inconsistent references"]>>]
        ELSE [success |-> TRUE, data |-> r.data]

\* A ValidationResult: a property that the code does not set is absent
validateArchitecture(v) ==
    LET r == SafeParse(AnalysisResultSchema, v)
    IN  IF r.success
        THEN [success |-> TRUE, data |-> r.data]
        ELSE [success |-> FALSE, errors |-> formatZodErrors(r.error)]

\* the wrapper built without its summary
validateArchitectureOnly_NoSummary(v) ==
    LET wrapped == JObj([architecture |-> v,
                         insights |-> JArr(<<>>), warnings |-> JArr(<<>>)])
        r == SafeParse(AnalysisResultSchema, wrapped)
    IN  IF r.success
        THEN [success |-> TRUE, data |-> r.data]
        ELSE [success |-> FALSE, errors |-> formatZodErrors(r.error)]

validateArchitectureOnly(v) ==
    LET wrapped == JObj([architecture |-> v, summary |-> JStr(""),
                         insights |-> JArr(<<>>), warnings |-> JArr(<<>>)])
        r == SafeParse(AnalysisResultSchema, wrapped)
    IN  IF r.success
        THEN [success |-> TRUE, data |-> r.data]
        ELSE [success |-> FALSE, errors |-> formatZodErrors(r.error)]

----------------------------------------------------------------------------
(* The wire: JSON.stringify followed by JSON.parse.  A property whose      *)
(* value is undefined is not written; an undefined array element is        *)
(* written as null.                                                        *)

RECURSIVE ToWire(_)
ToWire(v) ==
    CASE v.t = "object" ->
            JObj([key \in {kk \in DOMAIN v.o : v.o[kk].t # "undefined"} |-> ToWire(v.o[key])])
      [] v.t = "array" ->
            JArr([i \in 1..Len(v.a) |->
                    IF v.a[i].t = "undefined" THEN JNull ELSE ToWire(v.a[i])])
      [] OTHER -> v

----------------------------------------------------------------------------
(* Documents.  Sample is a valid envelope with a forest three levels deep; *)
(* Minimal is the smallest valid envelope (one node, one self-loop edge),  *)
(* with the kind of its node and edge and the property name the kind is    *)
(* written under as parameters.                                            *)

MaxDefects == 2

Node3 == JObj([id |-> JStr("n3"), name |-> JStr("Handler"), type |-> JStr("class"),
               lineStart |-> JNum(1), lineEnd |-> JNum(9),
               metadata |-> JObj([owner |-> JStr("core"), tags |-> JArr(<<JStr("a")>>)])])
Node2 == JObj([id |-> JStr("n2"), name |-> JStr("Api"), type |-> JStr("module"),
               children |-> JArr(<<Node3>>)])
Node1 == JObj([id |-> JStr("n1"), name |-> JStr("Svc"), type |-> JStr("service"),
               size |-> JNum(2), children |-> JArr(<<Node2>>)])
Node4 == JObj([id |-> JStr("n4"), name |-> JStr("Db"), type |-> JStr("database"),
               instances |-> JNum(1)])
Conn1 == JObj([id |-> JStr("c1"), sourceId |-> JStr("n1"), targetId |-> JStr("n4"),
               type |-> JStr("database"), thickness |-> JNum(1)])

Envelope(graph) ==
    JObj([architecture |-> graph, summary |-> JStr("S"),
          insights |-> JArr(<<>>), warnings |-> JArr(<<>>)])

Sample ==
    Envelope(JObj([name |-> JStr("G"), version |-> JStr("1"),
                   nodes |-> JArr(<<Node1, Node4>>),
                   connections |-> JArr(<<Conn1>>)]))

\* the node kinds and edge kinds of the glossary, and strings outside them
TwelveNodeKinds ==
    {"service", "module", "class", "function", "database", "cache", "queue",
     "gateway", "external", "container", "region", "cluster"}
NineEdgeKinds ==
    {"http", "grpc", "websocket", "database", "queue", "import", "inheritance",
     "composition", "event"}
OtherKinds == {"bogus", "Service", ""}
KindKeys == {"type", "kind"}

\* an object with one more property
With(v, key, val) ==
    JObj([kk \in DOMAIN v.o \cup {key} |-> IF kk = key THEN val ELSE v.o[kk]])

Minimal(nodeKind, edgeKind, nodeKey, edgeKey) ==
    Envelope(JObj([name |-> JStr("G"), version |-> JStr("1"),
        nodes |-> JArr(<<With(JObj([id |-> JStr("n1"), name |-> JStr("Svc")]),
                              nodeKey, JStr(nodeKind))>>),
        connections |-> JArr(<<With(JObj([id |-> JStr("c1"), sourceId |-> JStr("n1"),
                                          targetId |-> JStr("n1")]),
                                    edgeKey, JStr(edgeKind))>>)]))

MinimalInputs ==
    {Minimal(nk, ek, nKey, eKey) :
        nk \in TwelveNodeKinds \cup OtherKinds, ek \in NineEdgeKinds \cup OtherKinds,
        nKey \in KindKeys, eKey \in KindKeys}

----------------------------------------------------------------------------
(* Edits of the sample.  An edit sets, deletes or renames the property (or *)
(* replaces the value) at path p.  bad says whether the edit breaks a      *)
(* constraint of the data model; at is then the path of the broken field.  *)

PA == <<"architecture">>
PN1 == PA \o <<"nodes", "0">>
PN2 == PN1 \o <<"children", "0">>
PN3 == PN2 \o <<"children", "0">>
PN4 == PA \o <<"nodes", "1">>
PE1 == PA \o <<"connections", "0">>

SetTo(p, v, bad) == [p |-> p, op |-> "set", v |-> v, to |-> "", bad |-> bad, at |-> p]
SetAt(p, v, at) == [p |-> p, op |-> "set", v |-> v, to |-> "", bad |-> TRUE, at |-> at]
Del(p) == [p |-> p, op |-> "del", v |-> JUndef, to |-> "", bad |-> TRUE, at |-> p]
Ren(p, to) == [p |-> p, op |-> "ren", v |-> JUndef, to |-> to, bad |-> TRUE, at |-> p]

Edits == <<
    \* the whole document
    SetTo(<<>>, JNull, TRUE),
    SetTo(<<>>, JNum(5), TRUE),
    SetTo(<<>>, JArr(<<>>), TRUE),
    SetAt(<<>>, EmptyObj, PA),
    \* the envelope
    SetTo(PA, JNull, TRUE),
    Del(PA),
    Del(<<"summary">>),
    SetTo(<<"insights">>, JNull, TRUE),
    SetAt(<<"warnings">>, JArr(<<JNum(5)>>), <<"warnings", "0">>),
    \* the graph
    SetTo(PA \o <<"name">>, JStr(""), TRUE),
    Del(PA \o <<"name">>),
    SetTo(PA \o <<"version">>, JStr(""), TRUE),
    Del(PA \o <<"version">>),
    SetTo(PA \o <<"nodes">>, JArr(<<>>), TRUE),
    Del(PA \o <<"nodes">>),
    SetTo(PA \o <<"connections">>, JArr(<<>>), FALSE),
    Del(PA \o <<"connections">>),
    SetTo(PA \o <<"description">>, JUndef, FALSE),
    \* nodes at depth 1, 2 and 3
    SetTo(PN1 \o <<"id">>, JStr(""), TRUE),
    Del(PN1 \o <<"id">>),
    SetTo(PN1 \o <<"name">>, JStr(""), TRUE),
    SetTo(PN1 \o <<"type">>, JStr("bogus"), TRUE),
    Ren(PN1 \o <<"type">>, "kind"),
    SetTo(PN1 \o <<"size">>, JNum(0), TRUE),
    SetTo(PN1 \o <<"size">>, JNum(-1), TRUE),
    SetTo(PN1 \o <<"kind">>, JStr("service"), FALSE),
    SetTo(PN1 \o <<"size">>, JRat(1, 2), FALSE),
    SetTo(PN1 \o <<"instances">>, JNum(0), TRUE),
    SetTo(PN2 \o <<"lineStart">>, JNum(0), TRUE),
    SetTo(PN2 \o <<"id">>, JStr(""), TRUE),
    Del(PN2 \o <<"name">>),
    SetTo(PN3 \o <<"id">>, JStr(""), TRUE),
    Del(PN3 \o <<"id">>),
    SetTo(PN3 \o <<"id">>, JStr("n1"), FALSE),
    SetTo(PN3 \o <<"name">>, JStr(""), TRUE),
    SetTo(PN3 \o <<"type">>, JStr("bogus"), TRUE),
    SetTo(PN3 \o <<"lineStart">>, JNum(0), TRUE),
    SetTo(PN3 \o <<"lineEnd">>, JNum(-1), TRUE),
    SetTo(PN3 \o <<"lineStart">>, JRat(3, 2), TRUE),
    SetTo(PN3 \o <<"lineEnd">>, JRat(-1, 2), TRUE),
    SetTo(PN3 \o <<"metadata">>, EmptyObj, FALSE),
    SetTo(PN4 \o <<"id">>, JStr("n1"), FALSE),
    SetTo(PN4 \o <<"children">>, JArr(<<>>), FALSE),
    SetTo(PN4 \o <<"instances">>, JNum(0), TRUE),
    SetTo(PN4 \o <<"instances">>, JRat(5, 2), TRUE),
    \* the edge
    SetTo(PE1 \o <<"id">>, JStr(""), TRUE),
    SetTo(PE1 \o <<"sourceId">>, JStr(""), TRUE),
    Del(PE1 \o <<"sourceId">>),
    SetTo(PE1 \o <<"sourceId">>, JStr("ghost"), FALSE),
    SetTo(PE1 \o <<"targetId">>, JStr(""), TRUE),
    Del(PE1 \o <<"targetId">>),
    SetTo(PE1 \o <<"type">>, JStr("bogus"), TRUE),
    SetTo(PE1 \o <<"thickness">>, JNum(0), TRUE),
    SetTo(PE1 \o <<"thickness">>, JNum(-1), TRUE),
    SetTo(PE1 \o <<"thickness">>, JRat(3, 2), FALSE)
>>

IsPrefix(p, q) == Len(p) <= Len(q) /\ SubSeq(q, 1, Len(p)) = p

\* two edits are independent when neither path lies on the other's
Independent(e, f) == ~IsPrefix(Edits[e].p, Edits[f].p) /\ ~IsPrefix(Edits[f].p, Edits[e].p)

RECURSIVE EditSets(_)
\* the sets of at most n pairwise independent edits
EditSets(n) ==
    IF n = 0 THEN {{}}
    ELSE LET prev == EditSets(n - 1)
         IN  prev \cup {S \cup {e} : <<S, e>> \in
                          {x \in prev \X DOMAIN Edits :
                              \A f \in x[1] : Independent(x[2], f)}}

EditIndex(e) == CHOOSE i \in DOMAIN Edits : Edits[i] = e

\* the example of a document with three defects at once: an empty
\* architecture.name, an empty nodes array and an invalid connection type
ExampleEditSets ==
    {{EditIndex(SetTo(PA \o <<"name">>, JStr(""), TRUE)),
      EditIndex(SetTo(PA \o <<"nodes">>, JArr(<<>>), TRUE)),
      EditIndex(SetTo(PE1 \o <<"type">>, JStr("bogus"), TRUE))}}

Without(o, key) == [kk \in DOMAIN o \ {key} |-> o[kk]]

RECURSIVE Patch(_, _, _)
\* v with edit e made at path (relative to v); v when the path is not in v
Patch(v, path, e) ==
    IF path = <<>> THEN e.v
    ELSE IF v.t = "object" THEN
        LET key == Head(path) IN
        IF Len(path) > 1 THEN
            IF key \in DOMAIN v.o
            THEN JObj([v.o EXCEPT ![key] = Patch(v.o[key], Tail(path), e)])
            ELSE v
        ELSE CASE e.op = "set" -> With(v, key, e.v)
               [] e.op = "del" -> JObj(Without(v.o, key))
               [] e.op = "ren" ->
                    IF key \in DOMAIN v.o
                    THEN With(JObj(Without(v.o, key)), e.to, v.o[key])
                    ELSE v
    ELSE IF v.t = "array" THEN
        LET hit == {i \in 1..Len(v.a) : ToString(i - 1) = Head(path)} IN
        IF hit = {} THEN v
        ELSE LET i == CHOOSE i \in hit : TRUE
             IN  JArr([v.a EXCEPT ![i] = Patch(v.a[i], Tail(path), e)])
    ELSE v

RECURSIVE ApplyEdits(_, _)
\* the edits of S made in the order of Edits
ApplyEdits(v, S) ==
    IF S = {} THEN v
    ELSE LET i == CHOOSE i \in S : \A j \in S : i <= j
         IN  ApplyEdits(Patch(v, Edits[i].p, Edits[i]), S \ {i})

----------------------------------------------------------------------------
(* architectureStore.ts.  The state of the store is a record; set(partial) *)
(* merges the partial state into it.  The computed helpers read the state  *)
(* with get().                                                             *)

\* what an if or an && makes of a value
Truthy(v) ==
    CASE v.t \in {"undefined", "null"} -> FALSE
      [] v.t = "string" -> v.s # ""
      [] v.t = "number" -> v.n # 0
      [] v.t = "boolean" -> v.b
      [] OTHER -> TRUE

InitialStore ==
    [architecture |-> JNull,
     isLoading |-> JBool(FALSE),
     error |-> JNull,
     selectedNodeId |-> JNull,
     hoveredNodeId |-> JNull,
     expandedNodeIds |-> {},
     detailLevel |-> "service",
     showConnections |-> TRUE,
     showLabels |-> TRUE,
     animateConnections |-> TRUE,
     cameraPosition |-> [x |-> 0, y |-> 10, z |-> 20]]

\* zustand's set: the keys of partial replace those of state
Set(state, partial) ==
    [key \in DOMAIN state |-> IF key \in DOMAIN partial THEN partial[key] ELSE state[key]]

\* the view is reset with the graph
setArchitecture_ClearsView(state, arch) ==
    Set(state, [architecture |-> arch, error |-> JNull, selectedNodeId |-> JNull,
                hoveredNodeId |-> JNull, expandedNodeIds |-> {}])

setArchitecture(state, arch) == Set(state, [architecture |-> arch, error |-> JNull])
setLoading(state, loading) == Set(state, [isLoading |-> loading])
setError(state, error) == Set(state, [error |-> error, isLoading |-> JBool(FALSE)])
selectNode(state, nodeId) == Set(state, [selectedNodeId |-> nodeId])
hoverNode(state, nodeId) == Set(state, [hoveredNodeId |-> nodeId])

\* the node is marked in the graph instead of in a copy of the set
toggleNodeExpanded_MarksGraph(state, nodeId) ==
    Set(state, [expandedNodeIds |->
                    IF nodeId \in state.expandedNodeIds
                    THEN state.expandedNodeIds \ {nodeId}
                    ELSE state.expandedNodeIds \cup {nodeId},
                architecture |->
                    IF state.architecture.t = "object"
                    THEN With(state.architecture, "expanded", JStr(nodeId))
                    ELSE state.architecture])

\* the id is added and never taken out
toggleNodeExpanded_AddOnly(state, nodeId) ==
    Set(state, [expandedNodeIds |-> state.expandedNodeIds \cup {nodeId}])

toggleNodeExpanded(state, nodeId) ==
    LET newExpanded == IF nodeId \in state.expandedNodeIds
                       THEN state.expandedNodeIds \ {nodeId}
                       ELSE state.expandedNodeIds \cup {nodeId}
    IN  Set(state, [expandedNodeIds |-> newExpanded])

setDetailLevel(state, level) == Set(state, [detailLevel |-> level])
setShowConnections(state, show) == Set(state, [showConnections |-> show])
setShowLabels(state, show) == Set(state, [showLabels |-> show])
setAnimateConnections(state, animate) == Set(state, [animateConnections |-> animate])
setCameraPosition(state, pos) == Set(state, [cameraPosition |-> pos])

\* an exception in place of a returned value
Thrown == [t |-> "throw"]

RECURSIVE findNode_SiblingsFirst(_, _, _), findNode(_, _, _)

\* looks at all the nodes of a level before it goes into their children
findNode_SiblingsFirst(nodes, i, nodeId) ==
    LET here == {j \in 1..Len(nodes.a) : Get(nodes.a[j], "id") = JStr(nodeId)}
        below == [j \in 1..Len(nodes.a) |->
                     IF Truthy(Get(nodes.a[j], "children"))
                     THEN findNode_SiblingsFirst(Get(nodes.a[j], "children"), 1, nodeId)
                     ELSE JUndef]
        deeper == {j \in 1..Len(nodes.a) : Truthy(below[j])}
    IN  IF here # {} THEN nodes.a[CHOOSE j \in here : \A k \in here : j <= k]
        ELSE IF deeper # {} THEN below[CHOOSE j \in deeper : \A k \in deeper : j <= k]
        ELSE JUndef

\* the loop of findNode from its i-th node on
findNode(nodes, i, nodeId) ==
    IF i > Len(nodes.a) THEN JUndef
    ELSE LET node == nodes.a[i]
             found == IF Truthy(Get(node, "children"))
                      THEN findNode(Get(node, "children"), 1, nodeId)
                      ELSE JUndef
         IN  IF Get(node, "id") = JStr(nodeId) THEN node
             ELSE IF Truthy(found) THEN found
             ELSE findNode(nodes, i + 1, nodeId)

\* the guard on the architecture left out
getNode_NoGuard(state, nodeId) ==
    IF state.architecture.t # "object" THEN Thrown
    ELSE findNode(Get(state.architecture, "nodes"), 1, nodeId)

getNode(state, nodeId) ==
    LET arch == state.architecture
    IN  IF ~Truthy(arch) THEN JUndef
        ELSE findNode(Get(arch, "nodes"), 1, nodeId)

\* only the source of a connection is compared
getNodeConnections_SourceOnly(state, nodeId) ==
    LET arch == state.architecture
        touches(conn) == Get(conn, "sourceId") = JStr(nodeId)
    IN  IF ~Truthy(arch) THEN JArr(<<>>)
        ELSE JArr(SelectSeq(Get(arch, "connections").a, touches))

getNodeConnections(state, nodeId) ==
    LET arch == state.architecture
        touches(conn) == \/ Get(conn, "sourceId") = JStr(nodeId)
                         \/ Get(conn, "targetId") = JStr(nodeId)
    IN  IF ~Truthy(arch) THEN JArr(<<>>)
        ELSE JArr(SelectSeq(Get(arch, "connections").a, touches))

\* every ceiling one level too deep
detailDepth_OneDeeper == [overview |-> 2, service |-> 3, module |-> 4, code |-> 5]

detailDepth == [overview |-> 1, service |-> 2, module |-> 3, code |-> 4]

RECURSIVE collectNodes_CeilingOnly(_, _, _, _), collectNodes_ChildrenFirst(_, _, _, _),
          collectNodes_ExpandedFlips(_, _, _, _), collectNodes(_, _, _, _)

\* the expanded set is not looked at
collectNodes_CeilingOnly(nodes, depth, maxDepth, expandedNodeIds) ==
    Concat([i \in 1..Len(nodes.a) |->
               LET node == nodes.a[i]
               IN  <<node>> \o
                   (IF Truthy(Get(node, "children")) /\ depth < maxDepth
                    THEN collectNodes_CeilingOnly(Get(node, "children"), depth + 1,
                                                  maxDepth, expandedNodeIds)
                    ELSE <<>>)],
           1, Len(nodes.a))

\* a node is pushed after its children
collectNodes_ChildrenFirst(nodes, depth, maxDepth, expandedNodeIds) ==
    Concat([i \in 1..Len(nodes.a) |->
               LET node == nodes.a[i]
               IN  (IF /\ Truthy(Get(node, "children"))
                       /\ (depth < maxDepth \/ Get(node, "id").s \in expandedNodeIds)
                    THEN collectNodes_ChildrenFirst(Get(node, "children"), depth + 1,
                                                    maxDepth, expandedNodeIds)
                    ELSE <<>>)
                   \o <<node>>],
           1, Len(nodes.a))

\* an expanded id collapses a node that the ceiling would open
collectNodes_ExpandedFlips(nodes, depth, maxDepth, expandedNodeIds) ==
    Concat([i \in 1..Len(nodes.a) |->
               LET node == nodes.a[i]
               IN  <<node>> \o
                   (IF /\ Truthy(Get(node, "children"))
                       /\ (depth < maxDepth) # (Get(node, "id").s \in expandedNodeIds)
                    THEN collectNodes_ExpandedFlips(Get(node, "children"), depth + 1,
                                                    maxDepth, expandedNodeIds)
                    ELSE <<>>)],
           1, Len(nodes.a))

collectNodes(nodes, depth, maxDepth, expandedNodeIds) ==
    Concat([i \in 1..Len(nodes.a) |->
               LET node == nodes.a[i]
               IN  <<node>> \o
                   (IF /\ Truthy(Get(node, "children"))
                       /\ (depth < maxDepth \/ Get(node, "id").s \in expandedNodeIds)
                    THEN collectNodes(Get(node, "children"), depth + 1,
                                      maxDepth, expandedNodeIds)
                    ELSE <<>>)],
           1, Len(nodes.a))

getVisibleNodes(state) ==
    LET maxDepth == detailDepth[state.detailLevel]
    IN  IF ~Truthy(state.architecture) THEN JArr(<<>>)
        ELSE JArr(collectNodes(Get(state.architecture, "nodes"), 1, maxDepth,
                               state.expandedNodeIds))

----------------------------------------------------------------------------
(* The graphs given to the store, and the arguments of its calls.  Deep is *)
(* a forest five levels deep in which the ids a and b occur twice; every   *)
(* node has a name of its own.                                             *)
(*                                                                         *)
(*     R(r) -+- A(a) --- B(b) --- C(c) --- D(d)                            *)
(*           +- E(e)   with an empty children array                        *)
(*     S(s) --- A2(a) --- F(f)                                             *)
(*     B3(b)                                                               *)

Leaf(id, name, type) ==
    JObj([id |-> JStr(id), name |-> JStr(name), type |-> JStr(type)])
Branch(id, name, type, children) ==
    JObj([id |-> JStr(id), name |-> JStr(name), type |-> JStr(type),
          children |-> JArr(children)])
Edge(id, sourceId, targetId) ==
    JObj([id |-> JStr(id), sourceId |-> JStr(sourceId), targetId |-> JStr(targetId),
          type |-> JStr("http")])

DeepNodes ==
    << Branch("r", "R", "service",
           << Branch("a", "A", "module",
                  << Branch("b", "B", "class",
                         << Branch("c", "C", "function",
                                << Leaf("d", "D", "function") >>) >>) >>),
              Branch("e", "E", "module", <<>>) >>),
       Branch("s", "S", "service",
           << Branch("a", "A2", "module", << Leaf("f", "F", "class") >>) >>),
       Leaf("b", "B3", "database") >>

DeepEdges ==
    << Edge("k1", "r", "a"), Edge("k2", "a", "a"), Edge("k3", "b", "ghost"),
       Edge("k4", "ghost", "r"), Edge("k5", "s", "r") >>

Deep ==
    JObj([name |-> JStr("Deep"), version |-> JStr("1"),
          nodes |-> JArr(DeepNodes), connections |-> JArr(DeepEdges)])

\* a second graph: two levels, the id a twice, no b, no connections
Flat ==
    JObj([name |-> JStr("Flat"), version |-> JStr("1"),
          nodes |-> JArr(<< Leaf("a", "X", "service"),
                            Branch("r", "Y", "service",
                                << Leaf("a", "Z", "module") >>) >>),
          connections |-> JArr(<<>>)])

StoreGraphs == {Deep, Flat}
\* the ids the calls are made with: where the calls are those of the
\* helpers and of what the helpers read, and where they are all the calls
ToggleArgs == {"r", "a", "b"}
QueryArgs == {"r", "a", "b", "d", "ghost"}
StoreToggleArgs == {"a", "b"}
StoreQueryArgs == {"a"}
SelectArgs == {JNull, JStr("b")}
HoverArgs == {JNull, JStr("a")}
ErrorArgs == {JNull, JStr("Failed to load")}
CameraArgs == {[x |-> 0, y |-> 10, z |-> 20], [x |-> 5, y |-> 5, z |-> 5]}

NoQuery == [op |-> "none"]
NotPassed == [t |-> "nothing"]

----------------------------------------------------------------------------
(* The state machine: a document is written and read back (the CLI writes  *)
(* its result with JSON.stringify and loads a file with JSON.parse), then  *)
(* validated.                                                              *)

Pending == [pending |-> TRUE]

\* An object holds its keys in insertion order; JSON.stringify writes them
\* and JSON.parse inserts them in that order.  A document's objects hold
\* their keys either in the order of the schema's declarations or in the
\* opposite order.
KeyOrders == {"declared", "reversed"}

----------------------------------------------------------------------------
(* The command line, src/cli/analyze.ts.  Two revisions of the file are    *)
(* modelled: "schema" validates a loaded file with validateArchitecture    *)
(* and has the --validate mode, "fields" checks three fields by hand and   *)
(* does not know --validate.                                               *)

Revisions == {"schema", "fields"}

\* NaN: the number that is neither zero nor anything else, and is falsy
JNaN == [t |-> "number", n |-> 0, d |-> 0]

Digit(c) == {dd \in 0..9 : ToString(dd) = c}

RECURSIVE Digits(_, _, _)
\* the value of the longest run of digits of str from position i on, after
\* acc; NaN when there is no digit
Digits(str, i, acc) ==
    IF i <= Len(str) /\ Digit(SubSeq(str, i, i)) # {}
    THEN Digits(str, i + 1,
                JNum((IF acc = JNaN THEN 0 ELSE 10 * acc.n)
                     + (CHOOSE dd \in Digit(SubSeq(str, i, i)) : TRUE)))
    ELSE acc

\* parseInt(v, 10) of an argument or of undefined
parseInt(v) ==
    IF v.t # "string" THEN JNaN
    ELSE IF Len(v.s) > 0 /\ SubSeq(v.s, 1, 1) = "-"
         THEN LET m == Digits(v.s, 2, JNaN) IN IF m = JNaN THEN JNaN ELSE JNum(-m.n)
         ELSE Digits(v.s, 1, JNaN)

cwd == "/cwd"

\* path.resolve of one argument: an absolute path stays, a relative one is
\* put under the working directory; anything but a string is a TypeError
resolve(v) ==
    IF v.t # "string" THEN Thrown
    ELSE IF Len(v.s) > 0 /\ SubSeq(v.s, 1, 1) = "/" THEN v
    ELSE IF Len(v.s) > 1 /\ SubSeq(v.s, 1, 2) = "./"
         THEN JStr(cwd \o "/" \o SubSeq(v.s, 3, Len(v.s)))
    ELSE JStr(cwd \o "/" \o v.s)

join(dir, name) == dir \o "/" \o name

startsWith(str, prefix) ==
    Len(str) >= Len(prefix) /\ SubSeq(str, 1, Len(prefix)) = prefix

\* the variables of main before the arguments are read
DefaultOptions ==
    [inputPath |-> JUndef, validatePath |-> JUndef, outputPath |-> JUndef,
     analysisType |-> JStr("full"), maxDepth |-> JNum(3), useVertex |-> FALSE,
     projectId |-> JUndef, region |-> JUndef, port |-> JNum(3000),
     repositoryPath |-> JUndef]

RECURSIVE ParseArgs(_, _, _, _)
\* the loop of main over the arguments, from index i with the variables o;
\* Thrown when resolve throws
ParseArgs(args, i, o, rev) ==
    IF i > Len(args) THEN o
    ELSE
        LET arg == args[i]
            nextArg == IF i + 1 <= Len(args) THEN JStr(args[i + 1]) ELSE JUndef
        IN  IF arg \in {"--input", "-i"} THEN
                IF resolve(nextArg) = Thrown THEN Thrown
                ELSE ParseArgs(args, i + 2, [o EXCEPT !.inputPath = resolve(nextArg)], rev)
            ELSE IF arg = "--validate" /\ rev = "schema" THEN
                IF resolve(nextArg) = Thrown THEN Thrown
                ELSE ParseArgs(args, i + 2, [o EXCEPT !.validatePath = resolve(nextArg)], rev)
            ELSE IF arg \in {"--output", "-o"} THEN
                ParseArgs(args, i + 2, [o EXCEPT !.outputPath = nextArg], rev)
            ELSE IF arg \in {"--type", "-t"} THEN
                ParseArgs(args, i + 2, [o EXCEPT !.analysisType = nextArg], rev)
            ELSE IF arg \in {"--depth", "-d"} THEN
                ParseArgs(args, i + 2, [o EXCEPT !.maxDepth = parseInt(nextArg)], rev)
            ELSE IF arg \in {"--port", "-p"} THEN
                ParseArgs(args, i + 2, [o EXCEPT !.port = parseInt(nextArg)], rev)
            ELSE IF arg = "--vertex" THEN
                ParseArgs(args, i + 1, [o EXCEPT !.useVertex = TRUE], rev)
            ELSE IF arg = "--project" THEN
                ParseArgs(args, i + 2, [o EXCEPT !.projectId = nextArg], rev)
            ELSE IF arg = "--region" THEN
                ParseArgs(args, i + 2, [o EXCEPT !.region = nextArg], rev)
            ELSE IF ~startsWith(arg, "-") /\ ~Truthy(o.repositoryPath) THEN
                ParseArgs(args, i + 1, [o EXCEPT !.repositoryPath = resolve(JStr(arg))], rev)
            ELSE ParseArgs(args, i + 1, o, rev)

\* the first test of main
WantsHelp(args) == Len(args) = 0 \/ \E i \in 1..Len(args) : args[i] \in {"--help", "-h"}

\* what is at a path
Directory == [kind |-> "dir"]
TextFile == [kind |-> "file", parses |-> FALSE, value |-> JUndef]
\* the file that writeFileSync(path, JSON.stringify(v, null, 2)) leaves
JsonFile(v) == [kind |-> "file", parses |-> TRUE, value |-> ToWire(v)]

existsSync(fs, path) == path \in DOMAIN fs

WriteFile(fs, path, file) ==
    [q \in DOMAIN fs \cup {path} |-> IF q = path THEN file ELSE fs[q]]

\* formatValidationErrors of schema.ts: a heading and one line for each error
formatValidationErrors(errors) ==
    <<"Validation errors:">> \o
    [i \in 1..Len(errors) |-> "  - " \o errors[i].path \o ": " \o errors[i].message]

\* What a function of the command line did: the lines it printed, the exit
\* code when it ended the process (undefined when it returned), and what it
\* returned.
Outcome(code, out, err, d, validation) ==
    [exit |-> code, stdout |-> out, stderr |-> err, data |-> d, validation |-> validation]

\* loadAndValidateArchitecture of revision "schema"
loadAndValidateArchitecture(fs, inputPath, verbose) ==
    IF ~existsSync(fs, inputPath)
    THEN Outcome(JNum(1), <<>>, <<"Error: File not found: " \o inputPath>>, JUndef, Pending)
    ELSE IF fs[inputPath].kind # "file"
    THEN Outcome(JNum(1), <<>>, <<"Error reading file: EISDIR">>, JUndef, Pending)
    ELSE IF ~fs[inputPath].parses
    THEN Outcome(JNum(1), <<>>, <<"Error: Invalid JSON in file: " \o inputPath>>, JUndef, Pending)
    ELSE
        LET d == fs[inputPath].value
            validation == validateArchitecture(d)
        IN  IF ~validation.success
            THEN Outcome(JUndef, <<>>,
                         IF verbose
                         THEN <<"Validation failed for: " \o inputPath>>
                              \o formatValidationErrors(validation.errors)
                         ELSE <<>>,
                         d, validation)
            ELSE Outcome(JUndef,
                         IF verbose
                         THEN <<"Loaded architecture from: " \o inputPath>>
                         ELSE <<>>,
                         <<>>, d, validation)

\* loadAndValidateArchitecture of revision "fields" without its test of nodes
loadAndValidateArchitectureFields_NoNodesCheck(fs, inputPath) ==
    IF ~existsSync(fs, inputPath)
    THEN Outcome(JNum(1), <<>>, <<"Error: File not found: " \o inputPath>>, JUndef, Pending)
    ELSE IF fs[inputPath].kind # "file" \/ ~fs[inputPath].parses
    THEN Outcome(JNum(1), <<>>, <<"Error: Invalid JSON in file: " \o inputPath>>, JUndef, Pending)
    ELSE
        LET d == fs[inputPath].value
        IN  IF d.t # "object" \/ ~Truthy(Get(d, "architecture"))
            THEN Outcome(JNum(1), <<>>,
                    <<"Error: Invalid architecture file - missing \"architecture\" field">>,
                    d, Pending)
            ELSE Outcome(JUndef, <<"Loaded architecture from: " \o inputPath>>, <<>>,
                         d, [success |-> TRUE, data |-> d])

\* loadAndValidateArchitecture of revision "fields": it returns the data as
\* they were read.  Reading a property of null throws a TypeError, which the
\* catch around the whole body reports as a failure to read.
loadAndValidateArchitectureFields(fs, inputPath) ==
    IF ~existsSync(fs, inputPath)
    THEN Outcome(JNum(1), <<>>, <<"Error: File not found: " \o inputPath>>, JUndef, Pending)
    ELSE IF fs[inputPath].kind # "file"
    THEN Outcome(JNum(1), <<>>, <<"Error reading file: EISDIR">>, JUndef, Pending)
    ELSE IF ~fs[inputPath].parses
    THEN Outcome(JNum(1), <<>>, <<"Error: Invalid JSON in file: " \o inputPath>>, JUndef, Pending)
    ELSE
        LET d == fs[inputPath].value
            architecture == IF d.t = "object" THEN Get(d, "architecture") ELSE JUndef
            nodes == IF architecture.t = "object" THEN Get(architecture, "nodes") ELSE JUndef
            connections ==
                IF architecture.t = "object" THEN Get(architecture, "connections") ELSE JUndef
        IN  IF d.t = "null"
            THEN Outcome(JNum(1), <<>>, <<"Error reading file: TypeError">>, d, Pending)
            ELSE IF ~Truthy(architecture)
            THEN Outcome(JNum(1), <<>>,
                    <<"Error: Invalid architecture file - missing \"architecture\" field">>,
                    d, Pending)
            ELSE IF ~Truthy(nodes) \/ nodes.t # "array"
            THEN Outcome(JNum(1), <<>>,
                    <<"Error: Invalid architecture file - missing or invalid \"nodes\" array">>,
                    d, Pending)
            ELSE IF ~Truthy(connections) \/ connections.t # "array"
            THEN Outcome(JNum(1), <<>>,
                    <<"Error: Invalid architecture file - missing or invalid \"connections\" array">>,
                    d, Pending)
            ELSE Outcome(JUndef, <<"Loaded architecture from: " \o inputPath>>, <<>>,
                         d, [success |-> TRUE, data |-> d])

\* validateFile without its process.exit(1): the failure is only printed
validateFile_NoExit(r) ==
    IF r.exit # JUndef THEN r
    ELSE IF ~r.validation.success
    THEN Outcome(JUndef, <<>>,
                 <<"Validation FAILED">> \o formatValidationErrors(r.validation.errors),
                 r.data, r.validation)
    ELSE Outcome(JUndef, <<"Validation PASSED", "Architecture Summary:">>, <<>>,
                 r.data, r.validation)

\* validateFile of revision "schema", after its call of
\* loadAndValidateArchitecture returned r
validateFile(r) ==
    IF r.exit # JUndef THEN r
    ELSE IF ~r.validation.success
    THEN Outcome(JNum(1), <<>>,
                 <<"Validation FAILED">> \o formatValidationErrors(r.validation.errors)
                 \o <<"Total errors: " \o ToString(Len(r.validation.errors))>>,
                 r.data, r.validation)
    ELSE Outcome(JUndef, <<"Validation PASSED", "Architecture Summary:">>, <<>>,
                 r.data, r.validation)

PublicPath == join(join(cwd, "public"), "architecture.json")

\* the directory a path lies in
RECURSIVE Dirname(_, _)
Dirname(path, i) ==
    IF i <= 1 THEN "/"
    ELSE IF SubSeq(path, i, i) = "/" THEN SubSeq(path, 1, i - 1)
    ELSE Dirname(path, i - 1)

\* writeFileSync succeeds when the directory of the path exists and the
\* path is not itself a directory
Writable(fs, path) ==
    /\ existsSync(fs, Dirname(path, Len(path)))
    /\ fs[Dirname(path, Len(path))].kind = "dir"
    /\ existsSync(fs, path) => fs[path].kind = "file"

\* The runs of the command line: the arguments, the environment and what
\* lies at arch.json.
CliArgvs ==
    {<<>>, <<"--help">>, <<"-h">>,
     <<"--validate", "arch.json">>, <<"--validate", "arch.json", "--help">>,
     <<"--validate">>, <<"--validate", "arch.json", "--input", "arch.json">>,
     <<"--validate", "/non/existent/file.json">>,
     <<"--input", "arch.json">>, <<"-i", "arch.json", "--port", "8080">>,
     <<"--input">>, <<"--input", "/non/existent/file.json">>,
     <<"--input", "arch.json", "./repo">>,
     <<"./repo">>, <<"./repo", "--vertex">>, <<"./repo", "--vertex", "--project", "p">>,
     <<"./repo", "-o", "out.json">>, <<"./repo", "--depth", "0">>,
     <<"--vertex">>, <<"arch.json", "--validate">>}

CliEnvs ==
    {[ANTHROPIC_API_KEY |-> JUndef, GOOGLE_CLOUD_PROJECT |-> JUndef],
     [ANTHROPIC_API_KEY |-> JStr(""), GOOGLE_CLOUD_PROJECT |-> JUndef],
     [ANTHROPIC_API_KEY |-> JStr("sk"), GOOGLE_CLOUD_PROJECT |-> JUndef],
     [ANTHROPIC_API_KEY |-> JUndef, GOOGLE_CLOUD_PROJECT |-> JStr("p")]}

\* the documents of the tests of the --input mode, and documents that pass
\* the three field checks and fail the schema
NoArchitectureDoc == JObj([name |-> JStr("test")])
NoNodesDoc == JObj([architecture |-> JObj([name |-> JStr("Test"), connections |-> JArr(<<>>)])])
NoConnectionsDoc == JObj([architecture |-> JObj([name |-> JStr("Test"), nodes |-> JArr(<<>>)])])
BareArraysDoc == JObj([architecture |-> JObj([nodes |-> JArr(<<>>), connections |-> JArr(<<>>)])])

CliEdits ==
    {EditIndex(SetTo(<<>>, JNull, TRUE)),
     EditIndex(SetTo(<<>>, JNum(5), TRUE)),
     EditIndex(Del(<<"summary">>)),
     EditIndex(SetTo(PA \o <<"nodes">>, JArr(<<>>), TRUE)),
     EditIndex(SetTo(PA \o <<"connections">>, JArr(<<>>), FALSE)),
     EditIndex(SetTo(PN1 \o <<"type">>, JStr("bogus"), TRUE)),
     EditIndex(SetTo(PN3 \o <<"id">>, JStr(""), TRUE)),
     EditIndex(SetTo(PN3 \o <<"metadata">>, EmptyObj, FALSE)),
     EditIndex(SetTo(PE1 \o <<"sourceId">>, JStr("ghost"), FALSE)),
     EditIndex(SetTo(PE1 \o <<"thickness">>, JNum(0), TRUE))}

CliDocuments ==
    {Sample, NoArchitectureDoc, NoNodesDoc, NoConnectionsDoc, BareArraysDoc}
    \cup {ApplyEdits(Sample, {e}) : e \in CliEdits}

ArchPath == join(cwd, "arch.json")
RepoPath == join(cwd, "repo")

\* the file systems: the working directory, with or without public/ and
\* repo/, and nothing, a directory, a text or a document at arch.json
CliDisks ==
    LET Base(public) ==
            [q \in {cwd, RepoPath} \cup (IF public THEN {join(cwd, "public")} ELSE {})
                |-> Directory]
    IN  {Base(public) : public \in BOOLEAN}
        \cup {WriteFile(Base(public), ArchPath, file) :
                public \in BOOLEAN,
                file \in {Directory, TextFile} \cup {JsonFile(doc) : doc \in CliDocuments}}

\* no process: the state of the variables of the command line in the
\* behaviours that are not about it
NoProcess ==
    /\ argv = <<>>
    /\ env = [ANTHROPIC_API_KEY |-> JUndef, GOOGLE_CLOUD_PROJECT |-> JUndef]
    /\ revision = "schema"
    /\ disk = [q \in {cwd} |-> Directory]
    /\ exitCode = JUndef
    /\ stdout = <<>>
    /\ stderr = <<>>
    /\ writes = <<>>
    /\ server = FALSE
    /\ analyzer = JUndef
    /\ requests = 0

----------------------------------------------------------------------------
(* The analyzer, src/src/lib/analyzer.ts: gatherCodebaseInfo walks the     *)
(* repository, the model is asked, and validateAndEnhance completes what   *)
(* the model returned.                                                     *)

\* the repository: a directory is the sequence of its entries in the order
\* readdirSync returns them
File(size) == [kind |-> "file", size |-> size]
Folder(entries) == [kind |-> "dir", entries |-> entries]
Entry(name, node) == [name |-> name, node |-> node]

manifestPatterns ==
    {"package.json", "go.mod", "go.sum", "Cargo.toml", "requirements.txt",
     "pyproject.toml", "setup.py", "pom.xml", "build.gradle", "build.gradle.kts",
     "Gemfile", "composer.json", "mix.exs"}

configPatterns ==
    {"docker-compose.yml", "docker-compose.yaml", "Dockerfile", "kubernetes.yml",
     "kubernetes.yaml", "k8s.yml", "k8s.yaml", ".env.example", "config.yml",
     "config.yaml", "config.json", "tsconfig.json", "vite.config.ts",
     "webpack.config.js", "nginx.conf", "Makefile", "CMakeLists.txt"}

entryPointPatterns ==
    {"main.go", "main.py", "main.ts", "main.js", "index.ts", "index.js", "app.py",
     "app.ts", "app.js", "server.ts", "server.js", "Main.java", "Application.java",
     "main.rs", "lib.rs"}

extToType ==
    [e \in {".ts", ".tsx", ".js", ".jsx", ".py", ".go", ".java", ".rs", ".rb", ".cs",
            ".cpp", ".c", ".h", ".scala", ".kt", ".swift", ".proto", ".yaml", ".yml",
            ".json", ".md", ".sql"} |->
        CASE e \in {".ts", ".tsx"} -> "typescript"
          [] e \in {".js", ".jsx"} -> "javascript"
          [] e = ".py" -> "python"
          [] e = ".go" -> "go"
          [] e = ".java" -> "java"
          [] e = ".rs" -> "rust"
          [] e = ".rb" -> "ruby"
          [] e = ".cs" -> "csharp"
          [] e = ".cpp" -> "cpp"
          [] e \in {".c", ".h"} -> "c"
          [] e = ".scala" -> "scala"
          [] e = ".kt" -> "kotlin"
          [] e = ".swift" -> "swift"
          [] e = ".proto" -> "protobuf"
          [] e \in {".yaml", ".yml"} -> "yaml"
          [] e = ".json" -> "json"
          [] e = ".md" -> "markdown"
          [] e = ".sql" -> "sql"]

skipDirs ==
    {"node_modules", "vendor", ".git", "dist", "build", "target", "__pycache__",
     ".venv", "venv", ".idea", ".vscode", "coverage", ".next", ".nuxt", "out",
     "bin", "obj", ".gradle"}

maxFiles == 500
maxFileSize == 50000

UpperCase == "ABCDEFGHIJKLMNOPQRSTUVWXYZ"
LowerCase == "abcdefghijklmnopqrstuvwxyz"

LowerOf(c) ==
    LET hit == {i \in 1..Len(UpperCase) : SubSeq(UpperCase, i, i) = c}
    IN  IF hit = {} THEN c ELSE LET i == CHOOSE i \in hit : TRUE IN SubSeq(LowerCase, i, i)

RECURSIVE toLowerCase(_)
toLowerCase(str) ==
    IF str = "" THEN ""
    ELSE LowerOf(SubSeq(str, 1, 1)) \o toLowerCase(SubSeq(str, 2, Len(str)))

\* String.prototype.includes
includes(str, part) ==
    \E j \in 1..(Len(str) - Len(part) + 1) : SubSeq(str, j, j + Len(part) - 1) = part

\* path.extname: from the last dot on, when that dot is not the first character
extname(name) ==
    LET dots == {i \in 2..Len(name) : SubSeq(name, i, i) = "."}
    IN  IF dots = {} THEN ""
        ELSE LET i == CHOOSE i \in dots : \A j \in dots : j <= i
             IN  SubSeq(name, i, Len(name))

\* what gatherCodebaseInfo has collected; read lists the directories
\* handed to readdirSync
NoInfo ==
    [files |-> <<>>, packageManifests |-> <<>>, configFiles |-> <<>>,
     entryPoints |-> <<>>, fileCount |-> 0, read |-> <<>>]

\* the body of walk for a file
VisitFile(info, entry, relativePath, size) ==
    LET ext == toLowerCase(extname(entry))
        fileName == toLowerCase(entry)
        tracked == ext \in DOMAIN extToType
        isConfig == \E p \in configPatterns : includes(fileName, toLowerCase(p)) \/ entry = p
    IN  [info EXCEPT
            !.files = IF tracked
                      THEN Append(@, [path |-> relativePath, type |-> extToType[ext]])
                      ELSE @,
            !.fileCount = IF tracked THEN @ + 1 ELSE @,
            !.packageManifests =
                IF entry \in manifestPatterns /\ size <= maxFileSize
                THEN Append(@, relativePath) ELSE @,
            !.configFiles =
                IF isConfig /\ size <= maxFileSize THEN Append(@, relativePath) ELSE @,
            !.entryPoints =
                IF entry \in entryPointPatterns THEN Append(@, relativePath) ELSE @]

\* request.maxDepth || 5
DepthLimit(maxDepth) == IF Truthy(maxDepth) THEN maxDepth ELSE JNum(5)

RECURSIVE walk(_, _, _, _, _), walkEntries(_, _, _, _, _, _)
\* walk(dir, depth) on the directory dir at the relative path rel
walk(dir, rel, depth, maxDepth, info) ==
    IF depth > DepthLimit(maxDepth).n \/ info.fileCount >= maxFiles THEN info
    ELSE walkEntries(dir.entries, 1, rel, depth, maxDepth,
                     [info EXCEPT !.read = Append(@, rel)])

\* the loop of walk over the entries from index i on
walkEntries(entries, i, rel, depth, maxDepth, info) ==
    IF i > Len(entries) \/ info.fileCount >= maxFiles THEN info
    ELSE
        LET entry == entries[i].name
            node == entries[i].node
            relativePath == IF rel = "" THEN entry ELSE rel \o "/" \o entry
            skipped == \/ (startsWith(entry, ".") /\ entry # ".env.example")
                       \/ entry \in skipDirs
            after ==
                IF skipped THEN info
                ELSE IF node.kind = "dir"
                THEN walk(node, relativePath, depth + 1, maxDepth, info)
                ELSE VisitFile(info, entry, relativePath, node.size)
        IN  walkEntries(entries, i + 1, rel, depth, maxDepth, after)

\* gatherCodebaseInfo: repository is what lies at request.repositoryPath,
\* undefined when nothing does
gatherCodebaseInfo(request, repository) ==
    IF repository = JUndef THEN NoInfo
    ELSE walk(repository, "", 0, request.maxDepth, NoInfo)

typeLayerMap ==
    [gateway |-> JNum(8), service |-> JNum(4), module |-> JNum(2), class |-> JNum(1),
     function |-> JRat(1, 2), database |-> JNum(0), cache |-> JNum(1), queue |-> JNum(5),
     external |-> JNum(6), container |-> JNum(3), region |-> JNum(10), cluster |-> JNum(7)]

\* Math.cos(angle) * radius or Math.sin(angle) * radius for the angle
\* index / count of a full turn: exact at index 0, otherwise a number that
\* is kept as the expression
OnCircle(fn, index, count, radius) ==
    IF index = 0 THEN JNum(IF fn = "cos" THEN radius ELSE 0)
    ELSE [t |-> "number", fn |-> fn, turn |-> <<index, count>>, radius |-> radius]

LayerOf(node) ==
    IF Get(node, "type").t = "string" /\ Get(node, "type").s \in DOMAIN typeLayerMap
    THEN typeLayerMap[Get(node, "type").s]
    ELSE JNum(3)

RECURSIVE assignPositions(_)
assignPositions(nodes) ==
    JArr([i \in 1..Len(nodes.a) |->
        LET node == nodes.a[i]
            index == i - 1
            radius == 15 + (index \div 6) * 5
        IN  IF Truthy(Get(node, "position")) THEN node
            ELSE With(With(node, "position",
                           JObj([x |-> OnCircle("cos", index, Len(nodes.a), radius),
                                 y |-> LayerOf(node),
                                 z |-> OnCircle("sin", index, Len(nodes.a), radius)])),
                      "children",
                      IF Truthy(Get(node, "children"))
                      THEN assignPositions(Get(node, "children"))
                      ELSE JUndef)])

RECURSIVE replaceWhitespace(_, _)
\* replace(/\s+/g, '-'): every run of white space becomes one hyphen
replaceWhitespace(str, inRun) ==
    IF str = "" THEN ""
    ELSE IF SubSeq(str, 1, 1) \in {" ", "\t"}
         THEN (IF inRun THEN "" ELSE "-") \o replaceWhitespace(SubSeq(str, 2, Len(str)), TRUE)
         ELSE SubSeq(str, 1, 1) \o replaceWhitespace(SubSeq(str, 2, Len(str)), FALSE)

\* the id that ensureIds makes for a node without one
GeneratedId(index, name) ==
    "node-" \o ToString(index) \o "-" \o replaceWhitespace(toLowerCase(name), FALSE)

RECURSIVE ensureIds(_)
\* Thrown when a node has neither an id nor a name: toLowerCase of undefined
ensureIds(nodes) ==
    LET mapped ==
            [i \in 1..Len(nodes.a) |->
                LET node == nodes.a[i]
                    id == Get(node, "id")
                    name == Get(node, "name")
                    children == IF Truthy(Get(node, "children"))
                                THEN ensureIds(Get(node, "children"))
                                ELSE JUndef
                IN  IF ~Truthy(id) /\ name.t # "string" THEN Thrown
                    ELSE IF children = Thrown THEN Thrown
                    ELSE With(With(node, "id",
                                   IF Truthy(id) THEN id
                                   ELSE JStr(GeneratedId(i - 1, name.s))),
                              "children", children)]
    IN  IF \E i \in 1..Len(nodes.a) : mapped[i] = Thrown THEN Thrown ELSE JArr(mapped)

\* validateAndEnhance: Thrown when the architecture is missing, or when
\* nodes or connections is not an array and map is not a function of it
validateAndEnhance(reply) ==
    IF reply.t # "object" \/ ~Truthy(Get(reply, "architecture")) THEN Thrown
    ELSE
        LET architecture == Get(reply, "architecture")
            nodes == Get(architecture, "nodes")
            connections == Get(architecture, "connections")
        IN  IF architecture.t # "object" \/ nodes.t # "array" \/ connections.t # "array"
            THEN Thrown
            ELSE IF ensureIds(assignPositions(nodes)) = Thrown THEN Thrown
            ELSE With(reply, "architecture",
                    With(With(architecture, "nodes", ensureIds(assignPositions(nodes))),
                         "connections",
                         JArr([i \in 1..Len(connections.a) |->
                                 With(connections.a[i], "id",
                                      IF Truthy(Get(connections.a[i], "id"))
                                      THEN Get(connections.a[i], "id")
                                      ELSE JStr("conn-" \o ToString(i - 1)))])))

\* The repository of the runs: files at every level down to level 7, and
\* entries that walk skips.
Repository ==
    Folder(<<
        Entry("package.json", File(300)),
        Entry("README", File(10)),
        Entry(".git", Folder(<<Entry("config.json", File(10))>>)),
        Entry(".env.example", File(10)),
        Entry("node_modules", Folder(<<Entry("x.js", File(10))>>)),
        Entry("index.ts", File(10)),
        Entry("Big.Config.JSON", File(50001)),
        Entry("src", Folder(<<
            Entry("a.TSX", File(10)),
            Entry("lib", Folder(<<
                Entry("b.py", File(10)),
                Entry("deep", Folder(<<
                    Entry("main.go", File(10)),
                    Entry("d4", Folder(<<
                        Entry("e.rs", File(10)),
                        Entry("d5", Folder(<<
                            Entry("f.rb", File(10)),
                            Entry("d6", Folder(<<
                                Entry("g.c", File(10)),
                                Entry("d7", Folder(<<Entry("h.h", File(10))>>))
                            >>))
                        >>))
                    >>))
                >>))
            >>))
        >>))
    >>)

\* the depths asked for: none, the default of the command line, --depth 0,
\* other depths, and what parseInt makes of a word
MaxDepths == {JUndef, JNum(3), JNum(0), JNum(1), JNum(2), JNum(6), JNum(-1), JNaN}

Requests ==
    {[repositoryPath |-> RepoPath, analysisType |-> "full", maxDepth |-> d] :
        d \in MaxDepths}

\* What the model returns: five nodes, each with or without an id, the
\* first three with or without a position and the other two without.
ReplyNodes == {"P", "C1", "G", "C2", "Q"}
ReplyName == [P |-> "Api", C1 |-> "Api", G |-> "Request Handler", C2 |-> "Db  Cache",
              Q |-> "Web"]
ReplyType == [P |-> "service", C1 |-> "module", G |-> "function", C2 |-> "cache",
              Q |-> "lambda"]
ReplyId == [P |-> "n1", C1 |-> "n2", G |-> "n3", C2 |-> "n4", Q |-> "n5"]
GivenPosition == JObj([x |-> JNum(1), y |-> JNum(2), z |-> JNum(3)])

\* the node k, without an id when k is in noId and without a position when
\* k is in noPosition
ReplyNode(k, noId, noPosition, children) ==
    JObj([key \in {"name", "type"}
                  \cup (IF k \in noId THEN {} ELSE {"id"})
                  \cup (IF k \in noPosition THEN {} ELSE {"position"})
                  \cup (IF children = <<>> THEN {} ELSE {"children"}) |->
            CASE key = "name" -> JStr(ReplyName[k])
              [] key = "type" -> JStr(ReplyType[k])
              [] key = "id" -> JStr(ReplyId[k])
              [] key = "position" -> GivenPosition
              [] key = "children" -> JArr(children)])

Reply(noId, noPosition) ==
    Envelope(JObj([name |-> JStr("G"), version |-> JStr("1"),
        nodes |-> JArr(<<
            ReplyNode("P", noId, noPosition, <<
                ReplyNode("C1", noId, noPosition, <<ReplyNode("G", noId, noPosition, <<>>)>>),
                ReplyNode("C2", noId, noPosition, <<>>)>>),
            ReplyNode("Q", noId, noPosition, <<>>)>>),
        connections |-> JArr(<<
            JObj([id |-> JStr("c1"), sourceId |-> JStr("n1"), targetId |-> JStr("n5"),
                  type |-> JStr("http")]),
            JObj([sourceId |-> JStr("n5"), targetId |-> JStr("n1"),
                  type |-> JStr("http")])>>)]))

\* replies that validateAndEnhance cannot complete
BrokenReplies ==
    {JObj([summary |-> JStr("S")]),
     Envelope(JObj([name |-> JStr("G"), connections |-> JArr(<<>>)])),
     Envelope(JObj([name |-> JStr("G"),
                    nodes |-> JArr(<<JObj([type |-> JStr("service")])>>),
                    connections |-> JArr(<<>>)]))}

ModelReplies ==
    {Reply(noId, noPosition \cup {"G", "Q"}) :
        noId \in SUBSET ReplyNodes, noPosition \in SUBSET {"P", "C1", "C2"}}
    \cup BrokenReplies

InitDocument ==
    /\ \/ /\ input \in MinimalInputs
          /\ defects = {}
       \/ /\ defects \in EditSets(MaxDefects) \cup ExampleEditSets
          /\ input = ApplyEdits(Sample, defects)
    /\ data = JUndef
    /\ result = Pending
    /\ pc = "start"
    /\ store = InitialStore
    /\ query = NoQuery
    /\ passed = NotPassed
    /\ toggles = {}
    /\ NoProcess

Init == InitDocument /\ keyOrder = "declared"

InitKeyOrder == InitDocument /\ keyOrder \in KeyOrders

Load ==
    /\ pc = "start"
    /\ data' = ToWire(input)
    /\ pc' = "parsed"
    /\ UNCHANGED <<input, defects, result, keyOrder>>
    /\ UNCHANGED <<storeVars, cliVars>>

Validate ==
    /\ pc = "parsed"
    /\ result' = validateArchitecture(data)
    /\ pc' = "validated"
    /\ UNCHANGED <<input, defects, data, keyOrder>>
    /\ UNCHANGED <<storeVars, cliVars>>

\* the architecture of a document that is an object, validated on its own
ValidateOnly ==
    /\ pc = "parsed"
    /\ data.t = "object"
    /\ result' = validateArchitectureOnly(Get(data, "architecture"))
    /\ pc' = "validatedOnly"
    /\ UNCHANGED <<input, defects, data, keyOrder>>
    /\ UNCHANGED <<storeVars, cliVars>>

Next == Load \/ Validate

Spec == Init /\ [][Next]_vars

SpecKeyOrder == InitKeyOrder /\ [][Next]_vars

NextOnly == Load \/ ValidateOnly

SpecOnly == Init /\ [][NextOnly]_vars

----------------------------------------------------------------------------
(* The store as a state machine: the store is created, and then its        *)
(* actions and computed helpers are called in any order.  A call of an     *)
(* action discards what the last helper returned.                          *)

InitStore ==
    /\ input = JUndef /\ defects = {} /\ data = JUndef
    /\ result = Pending /\ pc = "store" /\ keyOrder = "declared"
    /\ store = InitialStore
    /\ query = NoQuery
    /\ passed = NotPassed
    /\ toggles = {}
    /\ NoProcess

SetArchitecture(graphs) ==
    \E arch \in graphs :
        /\ store' = setArchitecture(store, arch)
        /\ passed' = arch
        /\ query' = NoQuery
        /\ UNCHANGED toggles
        /\ UNCHANGED <<docVars, cliVars>>

SetLoading ==
    \E loading \in BOOLEAN :
        /\ store' = setLoading(store, JBool(loading))
        /\ query' = NoQuery
        /\ UNCHANGED <<passed, toggles>> /\ UNCHANGED <<docVars, cliVars>>

SetError ==
    \E error \in ErrorArgs :
        /\ store' = setError(store, error)
        /\ query' = NoQuery
        /\ UNCHANGED <<passed, toggles>> /\ UNCHANGED <<docVars, cliVars>>

SelectNode ==
    \E nodeId \in SelectArgs :
        /\ store' = selectNode(store, nodeId)
        /\ query' = NoQuery
        /\ UNCHANGED <<passed, toggles>> /\ UNCHANGED <<docVars, cliVars>>

HoverNode ==
    \E nodeId \in HoverArgs :
        /\ store' = hoverNode(store, nodeId)
        /\ query' = NoQuery
        /\ UNCHANGED <<passed, toggles>> /\ UNCHANGED <<docVars, cliVars>>

ToggleNodeExpanded(ids) ==
    \E nodeId \in ids :
        /\ store' = toggleNodeExpanded(store, nodeId)
        /\ toggles' = (toggles \ {nodeId}) \cup ({nodeId} \ toggles)
        /\ query' = NoQuery
        /\ UNCHANGED passed /\ UNCHANGED <<docVars, cliVars>>

SetDetailLevel ==
    \E level \in DetailLevelSchema.values :
        /\ store' = setDetailLevel(store, level)
        /\ query' = NoQuery
        /\ UNCHANGED <<passed, toggles>> /\ UNCHANGED <<docVars, cliVars>>

SetShowConnections ==
    \E show \in BOOLEAN :
        /\ store' = setShowConnections(store, show)
        /\ query' = NoQuery
        /\ UNCHANGED <<passed, toggles>> /\ UNCHANGED <<docVars, cliVars>>

SetShowLabels ==
    \E show \in BOOLEAN :
        /\ store' = setShowLabels(store, show)
        /\ query' = NoQuery
        /\ UNCHANGED <<passed, toggles>> /\ UNCHANGED <<docVars, cliVars>>

SetAnimateConnections ==
    \E animate \in BOOLEAN :
        /\ store' = setAnimateConnections(store, animate)
        /\ query' = NoQuery
        /\ UNCHANGED <<passed, toggles>> /\ UNCHANGED <<docVars, cliVars>>

SetCameraPosition ==
    \E pos \in CameraArgs :
        /\ store' = setCameraPosition(store, pos)
        /\ query' = NoQuery
        /\ UNCHANGED <<passed, toggles>> /\ UNCHANGED <<docVars, cliVars>>

GetNode(ids) ==
    \E nodeId \in ids :
        /\ query' = [op |-> "getNode", arg |-> nodeId, ret |-> getNode(store, nodeId)]
        /\ UNCHANGED <<store, passed, toggles>> /\ UNCHANGED <<docVars, cliVars>>

GetNodeConnections(ids) ==
    \E nodeId \in ids :
        /\ query' = [op |-> "getNodeConnections", arg |-> nodeId,
                      ret |-> getNodeConnections(store, nodeId)]
        /\ UNCHANGED <<store, passed, toggles>> /\ UNCHANGED <<docVars, cliVars>>

GetVisibleNodes ==
    /\ query' = [op |-> "getVisibleNodes", arg |-> "", ret |-> getVisibleNodes(store)]
    /\ UNCHANGED <<store, passed, toggles>> /\ UNCHANGED <<docVars, cliVars>>

\* the graph, the detail level, the expanded set and the computed helpers
NextQuery ==
    \/ SetArchitecture(StoreGraphs) \/ ToggleNodeExpanded(ToggleArgs) \/ SetDetailLevel
    \/ GetNode(QueryArgs) \/ GetNodeConnections(QueryArgs) \/ GetVisibleNodes

SpecQuery == InitStore /\ [][NextQuery]_vars

\* every action of the store and every computed helper
NextStore ==
    \/ SetArchitecture(StoreGraphs) \/ SetLoading \/ SetError
    \/ SelectNode \/ HoverNode \/ ToggleNodeExpanded(StoreToggleArgs)
    \/ SetDetailLevel \/ SetShowConnections \/ SetShowLabels
    \/ SetAnimateConnections \/ SetCameraPosition
    \/ GetNode(StoreQueryArgs) \/ GetNodeConnections(StoreQueryArgs) \/ GetVisibleNodes

SpecStore == InitStore /\ [][NextStore]_vars

----------------------------------------------------------------------------
(* ArchitectureGraph.tsx.  The component reads the graph, showConnections  *)
(* and the visible nodes from the store, gives every node of the forest a  *)
(* place, and returns a group of connection lines and node meshes; a null  *)
(* among the children of the group draws nothing.                          *)

\* a JavaScript Map as a function from its keys
EmptyMap == <<>>
MapSet(map, key, value) ==
    [k \in DOMAIN map \cup {key} |-> IF k = key THEN value ELSE map[k]]
MapGet(map, key) == IF key \in DOMAIN map THEN map[key] ELSE JUndef
\* other.forEach((value, key) => map.set(key, value))
MapSetAll(map, other) ==
    [k \in DOMAIN map \cup DOMAIN other |-> IF k \in DOMAIN other THEN other[k] ELSE map[k]]

\* a + b: exact for two fractions, otherwise kept as the expression
Plus(a, b) ==
    IF a.t = "number" /\ b.t = "number" /\ "n" \in DOMAIN a /\ "n" \in DOMAIN b
    THEN JRat(a.n * b.d + b.n * a.d, a.d * b.d)
    ELSE [t |-> "number", plus |-> <<a, b>>]

typeHeights ==
    [gateway |-> JNum(8), service |-> JNum(4), module |-> JNum(2), class |-> JNum(1),
     function |-> JRat(1, 2), database |-> JNum(0), cache |-> JNum(1), queue |-> JNum(1),
     external |-> JNum(6), container |-> JNum(3), region |-> JNum(10), cluster |-> JNum(7)]

getNodeHeight(node) ==
    IF Get(node, "type").t = "string" /\ Get(node, "type").s \in DOMAIN typeHeights
    THEN typeHeights[Get(node, "type").s]
    ELSE JNum(3)

RECURSIVE calculateChildPositions(_, _, _, _)
\* the children from the i-th on, placed around parentPos and added to positions
calculateChildPositions(children, i, parentPos, positions) ==
    IF i > Len(children) THEN positions
    ELSE LET child == children[i]
             index == i - 1
             radius == 4
             placed ==
                 MapSet(positions, Get(child, "id"),
                        JObj([x |-> Plus(Get(parentPos, "x"),
                                         OnCircle("cos", index, Len(children), radius)),
                              y |-> Plus(Get(parentPos, "y"), JNum(-2)),
                              z |-> Plus(Get(parentPos, "z"),
                                         OnCircle("sin", index, Len(children), radius))]))
             below ==
                 IF Truthy(Get(child, "children"))
                 THEN MapSetAll(placed,
                                calculateChildPositions(Get(child, "children").a, 1,
                                                        MapGet(placed, Get(child, "id")),
                                                        EmptyMap))
                 ELSE placed
         IN  calculateChildPositions(children, i + 1, parentPos, below)

RECURSIVE calculatePositions(_, _, _)
\* the top-level nodes from the i-th on, added to positions
calculatePositions(nodes, i, positions) ==
    IF i > Len(nodes) THEN positions
    ELSE LET node == nodes[i]
             index == i - 1
             nodeCount == Len(nodes)
             radius == IF nodeCount * 3 > 15 THEN nodeCount * 3 ELSE 15
             layerOffset == (index \div 8) * 8
             r == radius + layerOffset
             placed ==
                 IF Truthy(Get(node, "position"))
                 THEN MapSet(positions, Get(node, "id"), Get(node, "position"))
                 ELSE MapSet(positions, Get(node, "id"),
                             JObj([x |-> OnCircle("cos", index, nodeCount, r),
                                   y |-> getNodeHeight(node),
                                   z |-> OnCircle("sin", index, nodeCount, r)]))
             below ==
                 IF Truthy(Get(node, "children"))
                 THEN MapSetAll(placed,
                                calculateChildPositions(Get(node, "children").a, 1,
                                                        MapGet(placed, Get(node, "id")),
                                                        EmptyMap))
                 ELSE placed
         IN  calculatePositions(nodes, i + 1, below)

\* visibleNodes.some((n) => n.id === id)
SomeVisible(visibleNodes, id) ==
    \E i \in 1..Len(visibleNodes) : Get(visibleNodes[i], "id") = id

ConnectionLine(connection, startPosition, endPosition) ==
    [element |-> "ConnectionLine", key |-> Get(connection, "id"),
     connection |-> connection,
     startPosition |-> startPosition, endPosition |-> endPosition]
ArchitectureNodeMesh(node, position) ==
    [element |-> "ArchitectureNodeMesh", key |-> Get(node, "id"), node |-> node,
     position |-> <<Get(position, "x"), Get(position, "y"), Get(position, "z")>>]
\* what a null, or the false of `showConnections && ...`, draws
Nothing == [element |-> "nothing"]

\* a connection is drawn when its source alone is visible
ArchitectureGraph_SourceOnly(state) ==
    LET architecture == state.architecture
        visibleNodes == getVisibleNodes(state).a
        nodePositions ==
            IF ~Truthy(architecture) THEN EmptyMap
            ELSE calculatePositions(Get(architecture, "nodes").a, 1, EmptyMap)
    IN  IF ~Truthy(architecture) THEN Nothing
        ELSE [element |-> "group",
              connections |->
                  IF ~state.showConnections THEN <<>>
                  ELSE [i \in 1..Len(Get(architecture, "connections").a) |->
                          LET connection == Get(architecture, "connections").a[i]
                              sourcePos == MapGet(nodePositions, Get(connection, "sourceId"))
                              targetPos == MapGet(nodePositions, Get(connection, "targetId"))
                              sourceVisible ==
                                  SomeVisible(visibleNodes, Get(connection, "sourceId"))
                          IN  IF ~Truthy(sourcePos) \/ ~Truthy(targetPos) \/ ~sourceVisible
                              THEN Nothing
                              ELSE ConnectionLine(connection, sourcePos, targetPos)],
              nodes |->
                  [i \in 1..Len(visibleNodes) |->
                      LET node == visibleNodes[i]
                          position == MapGet(nodePositions, Get(node, "id"))
                      IN  IF ~Truthy(position) THEN Nothing
                          ELSE ArchitectureNodeMesh(node, position)]]

ArchitectureGraph(state) ==
    LET architecture == state.architecture
        visibleNodes == getVisibleNodes(state).a
        nodePositions ==
            IF ~Truthy(architecture) THEN EmptyMap
            ELSE calculatePositions(Get(architecture, "nodes").a, 1, EmptyMap)
    IN  IF ~Truthy(architecture) THEN Nothing
        ELSE [element |-> "group",
              connections |->
                  IF ~state.showConnections THEN <<>>
                  ELSE [i \in 1..Len(Get(architecture, "connections").a) |->
                          LET connection == Get(architecture, "connections").a[i]
                              sourcePos == MapGet(nodePositions, Get(connection, "sourceId"))
                              targetPos == MapGet(nodePositions, Get(connection, "targetId"))
                              sourceVisible ==
                                  SomeVisible(visibleNodes, Get(connection, "sourceId"))
                              targetVisible ==
                                  SomeVisible(visibleNodes, Get(connection, "targetId"))
                          IN  IF \/ ~Truthy(sourcePos) \/ ~Truthy(targetPos)
                                 \/ ~sourceVisible \/ ~targetVisible
                              THEN Nothing
                              ELSE ConnectionLine(connection, sourcePos, targetPos)],
              nodes |->
                  [i \in 1..Len(visibleNodes) |->
                      LET node == visibleNodes[i]
                          position == MapGet(nodePositions, Get(node, "id"))
                      IN  IF ~Truthy(position) THEN Nothing
                          ELSE ArchitectureNodeMesh(node, position)]]

\* a third graph for the renderer: the first tree has a place of its own
Placed ==
    JObj([name |-> JStr("Placed"), version |-> JStr("1"),
          nodes |-> JArr(<< With(Branch("p", "P", "service",
                                     << Branch("q", "Q", "module",
                                            << Leaf("w", "W", "class") >>),
                                        Leaf("v", "V", "function") >>),
                                 "position",
                                 JObj([x |-> JNum(1), y |-> JNum(2), z |-> JNum(3)])),
                            Leaf("u", "U", "queue") >>),
          connections |-> JArr(<< Edge("j1", "p", "u"), Edge("j2", "q", "u"),
                                  Edge("j3", "w", "v"), Edge("j4", "u", "nowhere") >>)])

RenderGraphs == StoreGraphs \cup {Placed}

\* React renders the component with the state of the store
RenderArchitectureGraph ==
    /\ query' = [op |-> "ArchitectureGraph", arg |-> "", ret |-> ArchitectureGraph(store)]
    /\ UNCHANGED <<store, passed, toggles>> /\ UNCHANGED <<docVars, cliVars>>

\* what the component reads, and its rendering
NextRender ==
    \/ SetArchitecture(RenderGraphs) \/ ToggleNodeExpanded(ToggleArgs) \/ SetDetailLevel
    \/ SetShowConnections \/ RenderArchitectureGraph

SpecRender == InitStore /\ [][NextRender]_vars

----------------------------------------------------------------------------
(* The command line as a state machine: one process from main to its exit. *)
(* A step ends where the process reads a file, writes one, spawns the      *)
(* server, constructs the analyzer or sends a request.                     *)

InitCli ==
    /\ input = JUndef /\ defects = {} /\ data = JUndef
    /\ result = Pending /\ pc = "main" /\ keyOrder = "declared"
    /\ store = InitialStore /\ query = NoQuery /\ passed = NotPassed
    /\ toggles = {}
    /\ argv \in CliArgvs
    /\ env \in CliEnvs
    /\ revision \in Revisions
    /\ disk \in CliDisks
    /\ exitCode = JUndef
    /\ stdout = <<>>
    /\ stderr = <<>>
    /\ writes = <<>>
    /\ server = FALSE
    /\ analyzer = JUndef
    /\ requests = 0

\* the variables of main after the loop over the arguments
Options == ParseArgs(argv, 1, DefaultOptions, revision)

\* the test of the key that lets an empty key through
KeyMissing_UnsetOnly(o, e) == ~o.useVertex /\ e.ANTHROPIC_API_KEY = JUndef

\* the test of main before it builds the configuration of the Anthropic API
KeyMissing(o, e) == ~o.useVertex /\ ~Truthy(e.ANTHROPIC_API_KEY)

\* main up to the first file it reads or the construction of the analyzer:
\* help, the arguments, the choice of the mode and the test of the API key
CliMain ==
    /\ pc = "main"
    /\ LET o == Options
           step ==
             IF WantsHelp(argv)
             THEN [pc |-> "exited", code |-> JNum(0), out |-> <<"Usage:">>, err |-> <<>>]
             ELSE IF o = Thrown
             THEN [pc |-> "exited", code |-> JNum(1), out |-> <<>>,
                   err |-> <<"TypeError [ERR_INVALID_ARG_TYPE]">>]
             ELSE IF Truthy(o.validatePath)
             THEN [pc |-> "validate", code |-> JUndef,
                   out |-> <<"Validating: " \o o.validatePath.s>>, err |-> <<>>]
             ELSE IF Truthy(o.inputPath)
             THEN [pc |-> "input", code |-> JUndef,
                   out |-> <<"SOAR - Architecture Visualization Mode">>, err |-> <<>>]
             ELSE IF ~Truthy(o.repositoryPath)
             THEN [pc |-> "exited", code |-> JNum(1), out |-> <<>>,
                   err |-> <<"Error: Please provide a repository path or use --input to load a JSON file">>]
             ELSE IF KeyMissing(o, env)
             THEN [pc |-> "exited", code |-> JNum(1), out |-> <<>>,
                   err |-> <<"Error: ANTHROPIC_API_KEY environment variable is required",
                             "Set it with: export ANTHROPIC_API_KEY=your-api-key">>]
             ELSE IF o.useVertex
             THEN [pc |-> "analysis", code |-> JUndef,
                   out |-> <<"Using Vertex AI authentication",
                             "Analyzing repository: " \o o.repositoryPath.s>>,
                   err |-> <<>>]
             ELSE [pc |-> "analysis", code |-> JUndef,
                   out |-> <<"Using Anthropic API authentication",
                             "Analyzing repository: " \o o.repositoryPath.s>>,
                   err |-> <<>>]
       IN  /\ pc' = step.pc
           /\ exitCode' = step.code
           /\ stdout' = stdout \o step.out
           /\ stderr' = stderr \o step.err
    /\ UNCHANGED <<input, defects, data, result, keyOrder>>
    /\ UNCHANGED <<argv, env, revision, disk, writes, server, analyzer, requests>>
    /\ UNCHANGED storeVars

\* mode 1: validateFile, and the return of main after it
CliValidateFile ==
    /\ pc = "validate"
    /\ LET r == validateFile(loadAndValidateArchitecture(disk, Options.validatePath.s, FALSE))
       IN  /\ data' = r.data
           /\ result' = r.validation
           /\ stdout' = stdout \o r.stdout
           /\ stderr' = stderr \o r.stderr
           /\ exitCode' = IF r.exit = JUndef THEN JNum(0) ELSE r.exit
    /\ pc' = "exited"
    /\ UNCHANGED <<input, defects, keyOrder>>
    /\ UNCHANGED <<argv, env, revision, disk, writes, server, analyzer, requests>>
    /\ UNCHANGED storeVars

\* mode 2, first part: the file is loaded and checked
CliLoad ==
    /\ pc = "input"
    /\ LET r == IF revision = "schema"
                THEN loadAndValidateArchitecture(disk, Options.inputPath.s, TRUE)
                ELSE loadAndValidateArchitectureFields(disk, Options.inputPath.s)
           failed == r.exit # JUndef \/ ~r.validation.success
       IN  /\ data' = r.data
           /\ result' = r.validation
           /\ stdout' = stdout \o r.stdout
           /\ stderr' = stderr \o r.stderr
           /\ exitCode' = IF failed THEN JNum(1) ELSE JUndef
           /\ pc' = IF failed THEN "exited" ELSE "loaded"
    /\ UNCHANGED <<input, defects, keyOrder>>
    /\ UNCHANGED <<argv, env, revision, disk, writes, server, analyzer, requests>>
    /\ UNCHANGED storeVars

\* mode 2, second part: writeArchitectureForVisualization.  When
\* writeFileSync throws, main rejects and the runtime ends the process.
CliWrite ==
    /\ pc = "loaded"
    /\ IF Writable(disk, PublicPath)
       THEN /\ disk' = WriteFile(disk, PublicPath, JsonFile(result.data))
            /\ writes' = Append(writes, PublicPath)
            /\ stdout' = Append(stdout, "Written to: " \o PublicPath)
            /\ pc' = "written"
            /\ UNCHANGED <<stderr, exitCode>>
       ELSE /\ stderr' = Append(stderr, "Error: ENOENT: no such file or directory")
            /\ exitCode' = JNum(1)
            /\ pc' = "exited"
            /\ UNCHANGED <<disk, writes, stdout>>
    /\ UNCHANGED <<input, defects, data, result, keyOrder>>
    /\ UNCHANGED <<argv, env, revision, server, analyzer, requests>>
    /\ UNCHANGED storeVars

\* mode 2, third part: startVisualizationServer spawns vite
CliServe ==
    /\ pc = "written"
    /\ server' = TRUE
    /\ stdout' = Append(stdout, "Starting visualization server on http://localhost")
    /\ pc' = "serving"
    /\ UNCHANGED <<input, defects, data, result, keyOrder>>
    /\ UNCHANGED <<argv, env, revision, disk, exitCode, stderr, writes, analyzer, requests>>
    /\ UNCHANGED storeVars

\* vite exits: with code 0 main returns, with another code main rejects
CliServerClosed ==
    /\ pc = "serving"
    /\ \E code \in {0, 1} :
        /\ exitCode' = JNum(code)
        /\ stderr' = IF code = 0 THEN stderr
                     ELSE Append(stderr, "Error: Vite exited with code 1")
    /\ pc' = "exited"
    /\ UNCHANGED <<input, defects, data, result, keyOrder>>
    /\ UNCHANGED <<argv, env, revision, disk, stdout, writes, server, analyzer, requests>>
    /\ UNCHANGED storeVars

\* SIGINT or SIGTERM while the server runs
CliSignal ==
    /\ pc = "serving"
    /\ exitCode' = JNum(0)
    /\ pc' = "exited"
    /\ UNCHANGED <<input, defects, data, result, keyOrder>>
    /\ UNCHANGED <<argv, env, revision, disk, stdout, stderr, writes, server, analyzer, requests>>
    /\ UNCHANGED storeVars

\* mode 3: new ArchitectureAnalyzer(authConfig).  The constructor throws
\* for Vertex AI without a project; the catch of main reports it.
CliConstruct ==
    /\ pc = "analysis"
    /\ LET o == Options
           projectId == IF Truthy(o.projectId) THEN o.projectId ELSE env.GOOGLE_CLOUD_PROJECT
       IN  IF o.useVertex /\ ~Truthy(projectId)
           THEN /\ stderr' = Append(stderr, "Error analyzing repository:")
                /\ exitCode' = JNum(1)
                /\ pc' = "exited"
                /\ UNCHANGED analyzer
           ELSE /\ analyzer' = JStr(IF o.useVertex THEN "vertex" ELSE "anthropic")
                /\ pc' = "constructed"
                /\ UNCHANGED <<stderr, exitCode>>
    /\ UNCHANGED <<input, defects, data, result, keyOrder>>
    /\ UNCHANGED <<argv, env, revision, disk, stdout, writes, server, requests>>
    /\ UNCHANGED storeVars

\* analyzer.analyze: the request to the model is sent
CliRequest ==
    /\ pc = "constructed"
    /\ requests' = requests + 1
    /\ pc' = "requested"
    /\ UNCHANGED <<input, defects, data, result, keyOrder>>
    /\ UNCHANGED <<argv, env, revision, disk, exitCode, stdout, stderr, writes, server, analyzer>>
    /\ UNCHANGED storeVars

\* analyze throws or returns; the result is saved or printed
CliRespond ==
    /\ pc = "requested"
    /\ \E reply \in {Thrown, Sample} :
        LET o == Options
            path == IF Truthy(o.outputPath) THEN resolve(o.outputPath).s ELSE ""
            saved == Truthy(o.outputPath) /\ Writable(disk, path)
        IN  IF reply = Thrown \/ (Truthy(o.outputPath) /\ ~saved)
            THEN /\ stderr' = Append(stderr, "Error analyzing repository:")
                 /\ exitCode' = JNum(1)
                 /\ UNCHANGED <<disk, writes, stdout>>
            ELSE /\ disk' = IF saved THEN WriteFile(disk, path, JsonFile(reply)) ELSE disk
                 /\ writes' = IF saved THEN Append(writes, path) ELSE writes
                 /\ stdout' = stdout \o (IF saved THEN <<"Architecture saved to: " \o path>>
                                         ELSE <<"Analysis Result:">>) \o <<"Summary:">>
                 /\ exitCode' = JNum(0)
                 /\ UNCHANGED stderr
    /\ pc' = "exited"
    /\ UNCHANGED <<input, defects, data, result, keyOrder>>
    /\ UNCHANGED <<argv, env, revision, server, analyzer, requests>>
    /\ UNCHANGED storeVars

NextCli ==
    \/ CliMain \/ CliValidateFile \/ CliLoad \/ CliWrite \/ CliServe
    \/ CliServerClosed \/ CliSignal \/ CliConstruct \/ CliRequest \/ CliRespond

SpecCli == InitCli /\ [][NextCli]_vars

----------------------------------------------------------------------------
(* The analyzer as a state machine: one call of analyze.  input holds the  *)
(* request and, once it has arrived, the answer of the model; data holds   *)
(* what gatherCodebaseInfo collected, result what validateAndEnhance       *)
(* returned.                                                               *)

InitAnalyzer ==
    /\ input \in [request : Requests, reply : {JUndef}]
    /\ defects = {} /\ data = JUndef
    /\ result = Pending /\ pc = "analyze" /\ keyOrder = "declared"
    /\ store = InitialStore /\ query = NoQuery /\ passed = NotPassed
    /\ toggles = {}
    /\ NoProcess

GatherCodebaseInfo ==
    /\ pc = "analyze"
    /\ data' = gatherCodebaseInfo(input.request, Repository)
    /\ pc' = "gathered"
    /\ UNCHANGED <<input, defects, result, keyOrder>>
    /\ UNCHANGED <<storeVars, cliVars>>

\* client.messages.create is called with the prompt
CreateMessage ==
    /\ pc = "gathered"
    /\ requests' = requests + 1
    /\ pc' = "asked"
    /\ UNCHANGED <<input, defects, data, result, keyOrder>>
    /\ UNCHANGED <<argv, env, revision, disk, exitCode, stdout, stderr, writes, server, analyzer>>
    /\ UNCHANGED storeVars

\* the answer arrives and JSON.parse reads it
ReceiveMessage ==
    /\ pc = "asked"
    /\ \E reply \in ModelReplies : input' = [input EXCEPT !.reply = reply]
    /\ pc' = "answered"
    /\ UNCHANGED <<defects, data, result, keyOrder>>
    /\ UNCHANGED <<storeVars, cliVars>>

\* the answer is completed
ValidateAndEnhance ==
    /\ pc = "answered"
    /\ result' = validateAndEnhance(input.reply)
    /\ pc' = IF validateAndEnhance(input.reply) = Thrown THEN "failed" ELSE "enhanced"
    /\ UNCHANGED <<input, defects, data, keyOrder>>
    /\ UNCHANGED <<storeVars, cliVars>>

NextAnalyzer ==
    GatherCodebaseInfo \/ CreateMessage \/ ReceiveMessage \/ ValidateAndEnhance

SpecAnalyzer == InitAnalyzer /\ [][NextAnalyzer]_vars

----------------------------------------------------------------------------
(* Reading a document, for the statements below *)

RECURSIVE ValueAt(_, _), Dotted(_)

\* the value at a path of a document; undefined when the path is not in it
ValueAt(v, path) ==
    IF path = <<>> THEN v
    ELSE IF v.t = "object" THEN
        IF Head(path) \in DOMAIN v.o THEN ValueAt(v.o[Head(path)], Tail(path)) ELSE JUndef
    ELSE IF v.t = "array" THEN
        LET hit == {i \in 1..Len(v.a) : ToString(i - 1) = Head(path)}
        IN  IF hit = {} THEN JUndef
            ELSE ValueAt(v.a[CHOOSE i \in hit : TRUE], Tail(path))
    ELSE JUndef

\* a path written with dots; the empty path is written root
Dotted(path) ==
    IF path = <<>> THEN "root"
    ELSE IF Len(path) = 1 THEN path[1]
    ELSE path[1] \o "." \o Dotted(Tail(path))

Validated == pc = "validated"
Failed == Validated /\ result.success = FALSE
Errors == IF Failed THEN result.errors ELSE <<>>
ErrorPaths == {Errors[i].path : i \in 1..Len(Errors)}
ErrorsAt(dotted) == {i \in 1..Len(Errors) : Errors[i].path = dotted}

BadEdits == {e \in defects : Edits[e].bad}

MinNodeMessage == "Architecture must have at least one node"
NodesPath == <<"architecture", "nodes">>
ConnectionsPath == <<"architecture", "connections">>

----------------------------------------------------------------------------
\* C1: validateArchitecture returns for every input value (null, scalars,
\* arrays and objects of the wrong shape included: Validate has no guard on
\* the value), and what it returns is either success with data and no errors
\* property, or failure with a non-empty errors list and no data property,
\* never both.
C1_TotalDiscriminated ==
    Validated =>
        \/ /\ result.success = TRUE
           /\ DOMAIN result = {"success", "data"}
        \/ /\ result.success = FALSE
           /\ DOMAIN result = {"success", "errors"}
           /\ Len(result.errors) >= 1

\* a value that is no object at all was validated and failed
C1_Witness == Failed /\ data.t \in {"null", "number", "array"}

\* C2: k independent defects in different fields give a violation for each
\* of the k fields: every constraint-breaking edit of the document has a
\* violation at the path of the field it broke.
C2_CompleteList ==
    Validated /\ BadEdits # {} =>
        /\ result.success = FALSE
        /\ \A e \in BadEdits : Dotted(Edits[e].at) \in ErrorPaths
        /\ Len(result.errors) >= Cardinality(BadEdits)

\* the example of the claim: an empty architecture.name, an empty nodes array
\* and an invalid connection type together
C2_Witness ==
    /\ Failed
    /\ ValueAt(data, <<"architecture", "name">>) = JStr("")
    /\ ValueAt(data, NodesPath) = JArr(<<>>)
    /\ ValueAt(data, PE1 \o <<"type">>) = JStr("bogus")
    /\ Cardinality(BadEdits) = 3

\* C3: a defect in a nested node is reported as it is for a top-level node,
\* under the dotted path with the full index chain; an empty id three levels
\* down is reported at architecture.nodes.0.children.0.children.0.id.
C3_RecursivePaths ==
    Validated =>
        /\ ValueAt(data, PN3 \o <<"id">>) = JStr("") =>
              \E i \in ErrorsAt("architecture.nodes.0.children.0.children.0.id") :
                  result.errors[i].message = "Node id is required"
        /\ ValueAt(data, PN2 \o <<"id">>) = JStr("") =>
              \E i \in ErrorsAt("architecture.nodes.0.children.0.id") :
                  result.errors[i].message = "Node id is required"
        /\ ValueAt(data, PN3 \o <<"type">>) = JStr("bogus") =>
              ErrorsAt("architecture.nodes.0.children.0.children.0.type") # {}
        /\ ValueAt(data, PN3 \o <<"name">>) = JStr("") =>
              \E i \in ErrorsAt("architecture.nodes.0.children.0.children.0.name") :
                  result.errors[i].message = "Node name is required"

C3_Witness ==
    /\ Failed
    /\ ValueAt(data, PN3 \o <<"id">>) = JStr("")
    /\ ValueAt(data, PN1 \o <<"id">>) = JStr("")

\* C4: a graph whose nodes array is empty fails whatever else the document
\* holds, with a violation at architecture.nodes saying that the
\* architecture must have at least one node; an empty connections array
\* raises no violation, and is accepted when nothing else is wrong.
C4_EmptyNodesFails ==
    Validated =>
        /\ ValueAt(data, NodesPath) = JArr(<<>>) =>
              /\ result.success = FALSE
              /\ \E i \in ErrorsAt("architecture.nodes") :
                     result.errors[i].message = MinNodeMessage
        /\ ValueAt(data, ConnectionsPath) = JArr(<<>>) =>
              /\ result.success = FALSE => ErrorsAt("architecture.connections") = {}
              /\ BadEdits = {} => result.success = TRUE

\* empty nodes together with a defect elsewhere in the document
C4_Witness ==
    /\ Failed
    /\ ValueAt(data, NodesPath) = JArr(<<>>)
    /\ Cardinality(BadEdits) = 2
    /\ Len(result.errors) >= 2

\* C5: a document whose only defect is that architecture.nodes is empty
\* fails with exactly one violation, at architecture.nodes, with the
\* at-least-one-node message.
C5_ExactlyOne ==
    Validated /\ ValueAt(data, NodesPath) = JArr(<<>>) /\ Cardinality(BadEdits) = 1 =>
        /\ result.success = FALSE
        /\ Len(result.errors) = 1
        /\ result.errors[1].path = "architecture.nodes"
        /\ result.errors[1].message = MinNodeMessage

C5_Witness ==
    /\ Failed
    /\ ValueAt(data, NodesPath) = JArr(<<>>)
    /\ Cardinality(BadEdits) = 1
    /\ defects # BadEdits

----------------------------------------------------------------------------
(* The data model of the specification, on the wire names of schema.ts    *)
(* (the closed-set field of a node and of an edge is written type).  A     *)
(* value in memory may hold an optional property whose value is undefined. *)

IsStr(x) == x.t = "string"
IsEmptyStr(x) == x.t = "string" /\ x.s = ""
IsNonEmptyStr(x) == x.t = "string" /\ x.s # ""
IsNum(x) == x.t = "number"
IsPositive(x) == x.t = "number" /\ x.n > 0
IsPositiveInt(x) == x.t = "number" /\ x.n > 0 /\ x.d = 1
IsBool(x) == x.t = "boolean"
IsMap(x) == x.t = "object"
IsOneOf(x, S) == x.t = "string" /\ x.s \in S
IsStrList(x) == x.t = "array" /\ \A i \in 1..Len(x.a) : IsStr(x.a[i])

Has(v, key, P(_)) == key \in DOMAIN v.o /\ P(v.o[key])
May(v, key, P(_)) == key \notin DOMAIN v.o \/ v.o[key].t = "undefined" \/ P(v.o[key])

IsVec3(x) ==
    /\ x.t = "object" /\ DOMAIN x.o = {"x", "y", "z"}
    /\ \A key \in DOMAIN x.o : IsNum(x.o[key])

IsMetrics(x) ==
    /\ x.t = "object"
    /\ DOMAIN x.o \subseteq {"requestsPerSecond", "latencyMs", "errorRate",
                             "cpuPercent", "memoryPercent", "connections"}
    /\ \A key \in DOMAIN x.o : x.o[key].t = "undefined" \/ IsNum(x.o[key])

IsHealth(x) == IsOneOf(x, {"healthy", "degraded", "unhealthy", "unknown"})
IsNodeKind(x) == IsOneOf(x, TwelveNodeKinds)
IsEdgeKind(x) == IsOneOf(x, NineEdgeKinds)
IsDataFlow(x) == IsOneOf(x, {"request", "response", "stream", "event"})

RECURSIVE IsNode(_), IsNodeList(_)

IsNode(v) ==
    /\ v.t = "object"
    /\ DOMAIN v.o \subseteq
          {"id", "name", "type", "description", "position", "color", "size",
           "parentId", "children", "filePath", "lineStart", "lineEnd",
           "technology", "language", "framework", "health", "metrics",
           "region", "instances", "metadata"}
    /\ Has(v, "id", IsNonEmptyStr) /\ Has(v, "name", IsNonEmptyStr)
    /\ Has(v, "type", IsNodeKind)
    /\ May(v, "description", IsStr) /\ May(v, "position", IsVec3)
    /\ May(v, "color", IsStr) /\ May(v, "size", IsPositive)
    /\ May(v, "parentId", IsStr) /\ May(v, "children", IsNodeList)
    /\ May(v, "filePath", IsStr) /\ May(v, "lineStart", IsPositiveInt)
    /\ May(v, "lineEnd", IsPositiveInt) /\ May(v, "technology", IsStr)
    /\ May(v, "language", IsStr) /\ May(v, "framework", IsStr)
    /\ May(v, "health", IsHealth) /\ May(v, "metrics", IsMetrics)
    /\ May(v, "region", IsStr) /\ May(v, "instances", IsPositiveInt)
    /\ May(v, "metadata", IsMap)

IsNodeList(x) == x.t = "array" /\ \A i \in 1..Len(x.a) : IsNode(x.a[i])

IsEdge(v) ==
    /\ v.t = "object"
    /\ DOMAIN v.o \subseteq
          {"id", "sourceId", "targetId", "type", "label", "color", "thickness",
           "animated", "bidirectional", "dataFlow", "requestsPerSecond",
           "latencyMs", "errorRate", "metadata"}
    /\ Has(v, "id", IsNonEmptyStr) /\ Has(v, "sourceId", IsNonEmptyStr)
    /\ Has(v, "targetId", IsNonEmptyStr) /\ Has(v, "type", IsEdgeKind)
    /\ May(v, "label", IsStr) /\ May(v, "color", IsStr)
    /\ May(v, "thickness", IsPositive) /\ May(v, "animated", IsBool)
    /\ May(v, "bidirectional", IsBool) /\ May(v, "dataFlow", IsDataFlow)
    /\ May(v, "requestsPerSecond", IsNum) /\ May(v, "latencyMs", IsNum)
    /\ May(v, "errorRate", IsNum) /\ May(v, "metadata", IsMap)

IsEdgeList(x) == x.t = "array" /\ \A i \in 1..Len(x.a) : IsEdge(x.a[i])
IsNonEmptyNodeList(x) == IsNodeList(x) /\ Len(x.a) >= 1

\* layout and defaultView do not occur in the documents of this model
IsGraph(v) ==
    /\ v.t = "object"
    /\ DOMAIN v.o \subseteq {"name", "version", "description", "generatedAt",
                             "sourceRepository", "nodes", "connections"}
    /\ Has(v, "name", IsNonEmptyStr) /\ Has(v, "version", IsNonEmptyStr)
    /\ May(v, "description", IsStr) /\ May(v, "generatedAt", IsStr)
    /\ May(v, "sourceRepository", IsStr)
    /\ Has(v, "nodes", IsNonEmptyNodeList) /\ Has(v, "connections", IsEdgeList)

IsEnvelope(v) ==
    /\ v.t = "object"
    /\ DOMAIN v.o = {"architecture", "summary", "insights", "warnings"}
    /\ IsGraph(v.o.architecture) /\ IsStr(v.o.summary)
    /\ IsStrList(v.o.insights) /\ IsStrList(v.o.warnings)

RECURSIVE StructurallyEqual(_, _)
\* equality of two values in which a property whose value is undefined
\* counts as absent
StructurallyEqual(a, b) ==
    /\ a.t = b.t
    /\ CASE a.t = "object" ->
              LET ka == {key \in DOMAIN a.o : a.o[key].t # "undefined"}
                  kb == {key \in DOMAIN b.o : b.o[key].t # "undefined"}
              IN  ka = kb /\ \A key \in ka : StructurallyEqual(a.o[key], b.o[key])
         [] a.t = "array" ->
              /\ Len(a.a) = Len(b.a)
              /\ \A i \in 1..Len(a.a) : StructurallyEqual(a.a[i], b.a[i])
         [] a.t = "string" -> a.s = b.s
         [] a.t = "number" -> a.n = b.n /\ a.d = b.d
         [] a.t = "boolean" -> a.b = b.b
         [] OTHER -> TRUE

RECURSIVE NodePathsIn(_, _)
\* the paths of the elements of a node array at path and of their descendants
NodePathsIn(arr, path) ==
    IF arr.t # "array" THEN {}
    ELSE UNION {LET p == Append(path, ToString(i - 1))
                IN  {p} \cup (IF arr.a[i].t = "object"
                              THEN NodePathsIn(Get(arr.a[i], "children"),
                                               Append(p, "children"))
                              ELSE {})
                : i \in 1..Len(arr.a)}

\* the node objects and edge objects that are in the validated document
NodePaths == {p \in NodePathsIn(ValueAt(data, NodesPath), NodesPath) :
                 ValueAt(data, p).t = "object"}
EdgePaths ==
    LET arr == ValueAt(data, ConnectionsPath)
    IN  IF arr.t # "array" THEN {}
        ELSE {p \in {Append(ConnectionsPath, ToString(i - 1)) : i \in 1..Len(arr.a)} :
                 ValueAt(data, p).t = "object"}
GraphPaths == IF ValueAt(data, PA).t = "object" THEN {PA} ELSE {}

ScenarioA(key) == Minimal("service", "http", key, key)

----------------------------------------------------------------------------
\* C6: a minimal node validates for each of the twelve node kinds and a
\* minimal edge for each of the nine edge kinds, and the kind comes back
\* as it was given; a node or an edge whose kind is a string outside its
\* set fails, with a violation at its type.
C6_EnumClosure ==
    Validated =>
        /\ \A nk \in TwelveNodeKinds, ek \in NineEdgeKinds :
              data = Minimal(nk, ek, "type", "type") =>
                  result.success = TRUE /\ result.data = data
        /\ \A p \in NodePaths :
              LET kind == ValueAt(data, Append(p, "type"))
              IN  /\ IsStr(kind) /\ kind.s \notin TwelveNodeKinds =>
                        ErrorsAt(Dotted(Append(p, "type"))) # {}
                  /\ IsStr(kind) /\ kind.s \in TwelveNodeKinds =>
                        ErrorsAt(Dotted(Append(p, "type"))) = {}
        /\ \A p \in EdgePaths :
              LET kind == ValueAt(data, Append(p, "type"))
              IN  /\ IsStr(kind) /\ kind.s \notin NineEdgeKinds =>
                        ErrorsAt(Dotted(Append(p, "type"))) # {}
                  /\ IsStr(kind) /\ kind.s \in NineEdgeKinds =>
                        ErrorsAt(Dotted(Append(p, "type"))) = {}

C6_Witness ==
    Validated /\ result.success = TRUE /\ data = Minimal("cluster", "event", "type", "type")

\* C7 as claimed: scenario A with the closed-set field written kind validates
C7_ScenarioA_Kind ==
    Validated /\ data = ScenarioA("kind") => result.success = TRUE

\* C7 (amended): the envelope with one node {id n1, name Svc, type service},
\* one self-loop edge {id c1, sourceId n1, targetId n1, type http}, a graph
\* name and version, a summary and empty insights and warnings validates;
\* written with kind in place of type it fails at both type fields.
C7_ScenarioA_Type ==
    Validated =>
        /\ data = ScenarioA("type") => result.success = TRUE
        /\ data = ScenarioA("kind") =>
              /\ result.success = FALSE
              /\ ErrorsAt("architecture.nodes.0.type") # {}
              /\ ErrorsAt("architecture.connections.0.type") # {}

C7_Witness == Validated /\ data = ScenarioA("type") /\ result.success = TRUE

\* C8: wherever a node's id or name, an edge's id, sourceId or targetId, or
\* the graph's name or version is missing or is the empty string, at any
\* depth, validation fails with a violation at that field's path.
C8_RequiredStrings ==
    Validated =>
        \A fields \in {<<NodePaths, {"id", "name"}>>,
                       <<EdgePaths, {"id", "sourceId", "targetId"}>>,
                       <<GraphPaths, {"name", "version"}>>} :
            \A p \in fields[1], f \in fields[2] :
                LET x == ValueAt(data, Append(p, f))
                IN  x.t = "undefined" \/ IsEmptyStr(x) =>
                        /\ result.success = FALSE
                        /\ ErrorsAt(Dotted(Append(p, f))) # {}

\* a missing id three levels down together with an empty sourceId
C8_Witness ==
    /\ Failed
    /\ ValueAt(data, PN3).t = "object"
    /\ ValueAt(data, PN3 \o <<"id">>).t = "undefined"
    /\ IsEmptyStr(ValueAt(data, PE1 \o <<"sourceId">>))

NodeIdAt(p) == ValueAt(data, Append(p, "id"))
DuplicateIds == \E p, q \in NodePaths : p # q /\ NodeIdAt(p) = NodeIdAt(q)
DanglingEdge ==
    \E e \in EdgePaths, end \in {"sourceId", "targetId"} :
        \A p \in NodePaths : NodeIdAt(p) # ValueAt(data, Append(e, end))

\* C9: a structurally valid envelope validates also when two nodes, at the
\* same depth or at different depths, carry the same id, and when an edge's
\* sourceId or targetId names no node.
C9_NoCrossReferenceCheck ==
    Validated /\ IsEnvelope(data) /\ (DuplicateIds \/ DanglingEdge) =>
        result.success = TRUE

\* the same id at depth 1 and at depth 3, and an edge from a node that is
\* not there
C9_Witness ==
    /\ Validated /\ IsEnvelope(data) /\ result.success = TRUE
    /\ NodeIdAt(PN1) = NodeIdAt(PN3)
    /\ ValueAt(data, PE1 \o <<"sourceId">>) = JStr("ghost")
    /\ DuplicateIds /\ DanglingEdge

----------------------------------------------------------------------------
(* The order of violations.  An error's path is a dotted string; PathOf    *)
(* reads it back as the path it was joined from (no key of the documents   *)
(* holds a dot).                                                           *)

\* the property names of the documents, in an order that agrees with the
\* order of declaration in every object of schema.ts; the names after
\* metadata are in no schema
DeclaredKeys ==
    <<"architecture", "summary", "insights", "warnings",
      "id", "sourceId", "targetId", "name", "version", "type", "description",
      "generatedAt", "sourceRepository", "nodes", "connections", "layout",
      "defaultView", "label", "position", "color", "size", "thickness",
      "parentId", "children", "filePath", "lineStart", "lineEnd", "instances",
      "metadata", "kind", "owner", "tags">>

DeclaredRank(key) == CHOOSE i \in DOMAIN DeclaredKeys : DeclaredKeys[i] = key

\* where a key stands among the keys of its object in the document
WrittenRank(key) ==
    IF keyOrder = "declared" THEN DeclaredRank(key) ELSE 0 - DeclaredRank(key)

IndexOf(str) == CHOOSE n \in 0..9 : ToString(n) = str

RECURSIVE AllPaths(_, _)
\* the paths of v and of everything in it
AllPaths(v, path) ==
    {path} \cup
    CASE v.t = "object" ->
            UNION {AllPaths(v.o[key], Append(path, key)) : key \in DOMAIN v.o}
      [] v.t = "array" ->
            UNION {AllPaths(v.a[i], Append(path, ToString(i - 1))) : i \in 1..Len(v.a)}
      [] OTHER -> {}

RECURSIVE SplitFrom(_, _, _)
\* the parts of str between its dots, from the part that starts at from,
\* with the characters before i already read
SplitFrom(str, i, from) ==
    IF i > Len(str) THEN <<SubSeq(str, from, Len(str))>>
    ELSE IF SubSeq(str, i, i) = "."
         THEN <<SubSeq(str, from, i - 1)>> \o SplitFrom(str, i + 1, i + 1)
         ELSE SplitFrom(str, i + 1, from)

\* the path that was joined into a dotted string
PathOf(dotted) == IF dotted = "root" THEN <<>> ELSE SplitFrom(dotted, 1, 1)

\* the first place at which two different paths differ
ForkOf(p, q) ==
    CHOOSE i \in 1..(Len(p) + 1) :
        /\ \A j \in 1..(i - 1) : j <= Len(q) /\ p[j] = q[j]
        /\ i > Len(p) \/ i > Len(q) \/ p[i] # q[i]

\* p comes before q when, at their fork, p has ended (a value starts before
\* what it holds), or p goes into the earlier element of the array, or into
\* the key of lower rank of the object
PathBefore(doc, p, q, Rank(_)) ==
    LET i == ForkOf(p, q)
    IN  IF i > Len(p) THEN Len(q) >= i
        ELSE IF i > Len(q) THEN FALSE
        ELSE IF ValueAt(doc, SubSeq(p, 1, i - 1)).t = "array"
             THEN IndexOf(p[i]) < IndexOf(q[i])
             ELSE Rank(p[i]) < Rank(q[i])

InDocument(doc, p) == ValueAt(doc, p).t # "undefined"

\* the paths of the violations, in the order of the errors list
ErrorPathSeq == [i \in 1..Len(Errors) |-> PathOf(Errors[i].path)]

\* violations of fields of the object at c and violations inside an array
\* that the object at c holds
OwnField(c, p) == Len(p) = Len(c) + 1 /\ IsPrefix(c, p)
InsideArrayOf(c, q) ==
    /\ Len(q) >= Len(c) + 2 /\ IsPrefix(c, q)
    /\ ValueAt(data, SubSeq(q, 1, Len(c) + 1)).t = "array"

\* C11 as claimed: the violations come in the order of the document: of two
\* violations, the one whose field is written first in the document comes
\* first, however the document orders its keys; a violation of an object's
\* own field comes before a violation inside an array the object holds; and
\* array elements come by index.
C11_DocumentOrder ==
    Failed /\ Len(Errors) > 1 =>
        LET at == ErrorPathSeq
        IN  \A i, j \in 1..Len(Errors) :
                /\ /\ i < j /\ at[i] # at[j]
                   /\ InDocument(data, at[i]) /\ InDocument(data, at[j])
                   => PathBefore(data, at[i], at[j], WrittenRank)
                /\ (\E c \in AllPaths(data, <<>>) :
                        /\ ValueAt(data, c).t = "object"
                        /\ OwnField(c, at[i]) /\ InsideArrayOf(c, at[j])) => i < j

\* C11 (amended): the violations come in the order of the schema's
\* declarations, depth first, whatever the order of the document's keys: of
\* two violations under one object, the one under the key declared first
\* comes first, with everything under that key; a violation of an array
\* itself comes before those of its elements, and the elements come by
\* index.  A node's id, name, type and size come before the violations of
\* its children; its lineStart, lineEnd and instances come after them.
C11_DeclarationOrder ==
    Failed /\ Len(Errors) > 1 =>
        LET at == ErrorPathSeq
        IN  \A i \in 1..Len(Errors) : \A j \in (i + 1)..Len(Errors) :
                at[i] # at[j] => PathBefore(data, at[i], at[j], DeclaredRank)

\* the document holds its keys in the opposite order, and a node's
\* lineStart is reported after the id of its child
C11_Witness ==
    /\ Failed /\ keyOrder = "reversed"
    /\ Len(Errors) = 2
    /\ Errors[1].path = "architecture.nodes.0.children.0.children.0.id"
    /\ Errors[2].path = "architecture.nodes.0.children.0.lineStart"

----------------------------------------------------------------------------
(* Numbers declared positive *)

AtLeastOne(x) == x.t = "number" /\ x.n >= x.d
NotPositive(x) == x.t = "number" /\ x.n <= 0
Whole(x) == x.t = "number" /\ x.n % x.d = 0

\* the fields declared positive, with the paths of the objects that can
\* hold them: <<objects, fields declared a number, fields declared an integer>>
PositiveFields ==
    {<<NodePaths, {"size"}, {"lineStart", "lineEnd", "instances"}>>,
     <<EdgePaths, {"thickness"}, {}>>}

Rejected(p, f) == result.success = FALSE /\ ErrorsAt(Dotted(Append(p, f))) # {}
Accepted(p, f) == ErrorsAt(Dotted(Append(p, f))) = {}

\* C12 as claimed: size, lineStart, lineEnd, instances and thickness are
\* rejected at 0 and below, and accepted at every value of 1 or above and
\* when absent.
C12_PositiveAsClaimed ==
    Validated =>
        \A fields \in PositiveFields :
            \A p \in fields[1], f \in fields[2] \cup fields[3] :
                LET x == ValueAt(data, Append(p, f))
                IN  /\ NotPositive(x) => Rejected(p, f)
                    /\ AtLeastOne(x) => Accepted(p, f)
                    /\ x.t = "undefined" => Accepted(p, f)

\* C12 (amended): size, lineStart, lineEnd, instances and thickness are
\* rejected at 0 and below and accepted when absent.  size and thickness
\* are accepted at every value above 0; lineStart, lineEnd and instances
\* are declared integers: a whole number of 1 or above is accepted, a
\* number that is not whole (1.5, 2.5) is rejected.
C12_PositiveNumbers ==
    Validated =>
        \A fields \in PositiveFields :
            /\ \A p \in fields[1], f \in fields[2] \cup fields[3] :
                  LET x == ValueAt(data, Append(p, f))
                  IN  /\ NotPositive(x) => Rejected(p, f)
                      /\ x.t = "undefined" => Accepted(p, f)
            /\ \A p \in fields[1], f \in fields[2] :
                  LET x == ValueAt(data, Append(p, f))
                  IN  IsPositive(x) => Accepted(p, f)
            /\ \A p \in fields[1], f \in fields[3] :
                  LET x == ValueAt(data, Append(p, f))
                  IN  /\ AtLeastOne(x) /\ Whole(x) => Accepted(p, f)
                      /\ IsNum(x) /\ ~Whole(x) => Rejected(p, f)

\* an edge of thickness 0 and a node whose lineStart is 1.5, in a document
\* whose other positive fields are 1 or above or absent
C12_Witness ==
    /\ Failed
    /\ ValueAt(data, PE1 \o <<"thickness">>) = JNum(0)
    /\ ValueAt(data, PN3 \o <<"lineStart">>) = JRat(3, 2)
    /\ Rejected(PE1, "thickness") /\ Rejected(PN3, "lineStart")
    /\ ValueAt(data, PN3 \o <<"lineEnd">>) = JNum(9) /\ Accepted(PN3, "lineEnd")
    /\ ValueAt(data, PN4 \o <<"size">>) = JUndef /\ Accepted(PN4, "size")

----------------------------------------------------------------------------
(* validateArchitectureOnly *)

ValidatedOnly == pc = "validatedOnly"

\* the graph that was handed to validateArchitectureOnly
BareGraph == Get(data, "architecture")

\* the envelope the claim names
EnvelopeOf(g) ==
    JObj([architecture |-> g, summary |-> JStr(""),
          insights |-> JArr(<<>>), warnings |-> JArr(<<>>)])

\* the edits of the document that break a constraint of its graph
BadGraphEdits == {e \in BadEdits : Edits[e].at # <<>> /\ Head(Edits[e].at) = "architecture"}

\* C13: validateArchitectureOnly(g) returns what validateArchitecture
\* returns for {architecture: g, summary: "", insights: [], warnings: []}.
\* It succeeds exactly when the graph alone satisfies the graph schema,
\* whatever the summary, insights and warnings of the document g came from;
\* on success its data is that envelope (for a g that satisfies the data
\* model, g itself inside it); on failure every violation is at
\* architecture or under it.
C13_OnlyEquivalent ==
    ValidatedOnly =>
        /\ result = validateArchitecture(EnvelopeOf(BareGraph))
        /\ result.success = (Issues(ArchitectureSchema, BareGraph, <<>>) = <<>>)
        /\ input \notin MinimalInputs => result.success = (BadGraphEdits = {})
        /\ IsGraph(BareGraph) => result.success = TRUE /\ result.data = EnvelopeOf(BareGraph)
        /\ result.success = TRUE =>
              /\ DOMAIN result = {"success", "data"}
              /\ DOMAIN result.data.o = {"architecture", "summary", "insights", "warnings"}
              /\ result.data.o.summary = JStr("")
              /\ result.data.o.insights = JArr(<<>>)
              /\ result.data.o.warnings = JArr(<<>>)
              /\ result.data.o.architecture = Output(ArchitectureSchema, BareGraph)
        /\ result.success = FALSE =>
              /\ DOMAIN result = {"success", "errors"}
              /\ Len(result.errors) >= 1
              /\ \A i \in 1..Len(result.errors) :
                     LET p == PathOf(result.errors[i].path)
                     IN  p # <<>> /\ Head(p) = "architecture"

\* a graph with one defect, taken from a document that has no summary
C13_Witness ==
    /\ ValidatedOnly /\ result.success = FALSE
    /\ "summary" \notin DOMAIN data.o
    /\ Cardinality(BadGraphEdits) = 1 /\ Cardinality(BadEdits) = 2
    /\ Len(result.errors) = 1
    /\ result.errors[1].path = "architecture.nodes.0.children.0.children.0.id"

----------------------------------------------------------------------------
(* Reading the store, for the statements below.  A place in the forest is  *)
(* the sequence of the indices that lead to it: <<1, 2>> is the second     *)
(* child of the first top-level node, and its depth is the length.  The    *)
(* nodes of the graphs have names of their own, so a node that a helper    *)
(* returned is at one place only.                                          *)

Loaded == store.architecture.t = "object"
Forest == Get(store.architecture, "nodes")
Connections == Get(store.architecture, "connections").a

RECURSIVE PlacesIn(_, _), NodeIn(_, _), Shown(_)

PlacesIn(arr, prefix) ==
    IF arr.t # "array" THEN {}
    ELSE UNION {{Append(prefix, i)}
                   \cup PlacesIn(Get(arr.a[i], "children"), Append(prefix, i))
                : i \in 1..Len(arr.a)}

NodeIn(arr, place) ==
    IF Len(place) = 1 THEN arr.a[place[1]]
    ELSE NodeIn(Get(arr.a[place[1]], "children"), Tail(place))

Places == IF Loaded THEN PlacesIn(Forest, <<>>) ELSE {}
NodeAt(place) == NodeIn(Forest, place)
IdAt(place) == Get(NodeAt(place), "id").s
NameOf(node) == Get(node, "name").s
PlaceOf(node) == CHOOSE place \in Places : NodeAt(place) = node
Depth(place) == Len(place)
Parent(place) == SubSeq(place, 1, Len(place) - 1)
Below(place, other) == Len(other) > Len(place) /\ IsPrefix(place, other)

\* depth-first pre-order: a node before what is below it, a node's children
\* in their sequence, an earlier tree before a later one
PreOrderBefore(p, q) ==
    /\ p # q
    /\ LET i == ForkOf(p, q)
       IN  i > Len(p) \/ (i <= Len(q) /\ p[i] < q[i])

\* the ceilings of the detail levels
Ceiling == [overview |-> 1, service |-> 2, module |-> 3, code |-> 4]

\* the disclosure rule: a top-level node is shown; another node is shown
\* when its parent is shown and the parent is above the ceiling or expanded
Shown(place) ==
    \/ Depth(place) = 1
    \/ /\ Shown(Parent(place))
       /\ \/ Depth(Parent(place)) < Ceiling[store.detailLevel]
          \/ IdAt(Parent(place)) \in store.expandedNodeIds

Returned == query.ret.a
ReturnedPlaces == {PlaceOf(Returned[i]) : i \in 1..Len(Returned)}
ReturnedNames == [i \in 1..Len(Returned) |-> NameOf(Returned[i])]
AskedVisible == query.op = "getVisibleNodes"

\* C14: getVisibleNodes returns the nodes the disclosure rule shows and no
\* other: the top-level nodes always, the children of a shown node at depth
\* d exactly when d is below the ceiling of the detail level or the node's
\* id is expanded; a node whose parent is at or below the ceiling and not
\* expanded is left out, its own id being expanded or not.
C14_DisclosureRule ==
    AskedVisible /\ Loaded =>
        /\ query.ret.t = "array"
        /\ \A i \in 1..Len(Returned) : \E place \in Places : NodeAt(place) = Returned[i]
        /\ ReturnedPlaces = {place \in Places : Shown(place)}
        /\ \A place \in Places :
              /\ Depth(place) = 1 => place \in ReturnedPlaces
              /\ Depth(place) > 1 /\ Parent(place) \in ReturnedPlaces =>
                    (place \in ReturnedPlaces <=>
                        \/ Depth(Parent(place)) < Ceiling[store.detailLevel]
                        \/ IdAt(Parent(place)) \in store.expandedNodeIds)
              /\ Depth(place) > 1 /\ Parent(place) \notin ReturnedPlaces =>
                    place \notin ReturnedPlaces

\* at overview with r and b expanded: R shows its children A and E; A is at
\* the ceiling and not expanded, so B stays hidden although b is expanded
C14_Witness ==
    /\ AskedVisible /\ store.architecture = Deep
    /\ store.detailLevel = "overview"
    /\ store.expandedNodeIds = {"r", "b"}
    /\ ReturnedNames = <<"R", "A", "E", "S", "B3">>

\* C15: the ceilings are overview 1, service 2, module 3 and code 4, and
\* with nothing expanded getVisibleNodes returns exactly the nodes whose
\* depth is at most the ceiling; a forest four or more levels deep at
\* overview gives its top-level nodes only.
C15_CeilingOnly ==
    AskedVisible /\ Loaded /\ store.expandedNodeIds = {} =>
        /\ ReturnedPlaces =
              {place \in Places :
                  Depth(place) <= (CASE store.detailLevel = "overview" -> 1
                                     [] store.detailLevel = "service" -> 2
                                     [] store.detailLevel = "module" -> 3
                                     [] store.detailLevel = "code" -> 4)}
        /\ Len(Returned) = Cardinality(ReturnedPlaces)
        /\ store.detailLevel = "overview" =>
              Returned = Forest.a

\* the forest five levels deep at code: all but the node at depth 5
C15_Witness ==
    /\ AskedVisible /\ store.architecture = Deep
    /\ store.expandedNodeIds = {}
    /\ store.detailLevel = "code"
    /\ ReturnedNames = <<"R", "A", "B", "C", "E", "S", "A2", "F", "B3">>

\* C16: getVisibleNodes returns the nodes in depth-first pre-order: the
\* places of the result go strictly forward in the pre-order of the forest
\* (so no place comes twice and siblings keep their order), and what is
\* returned from below a node follows it without anything else in between.
C16_PreOrder ==
    AskedVisible /\ Loaded =>
        LET at == [i \in 1..Len(Returned) |-> PlaceOf(Returned[i])]
        IN  /\ \A i, j \in 1..Len(Returned) : i < j => PreOrderBefore(at[i], at[j])
            /\ \A i, j, k \in 1..Len(Returned) :
                   i < j /\ j < k /\ Below(at[i], at[k]) => Below(at[i], at[j])
            /\ \A i, k \in 1..Len(Returned) :
                   Below(at[i], at[k]) => i < k
            /\ \A i \in 1..Len(Returned) :
                   Append(at[i], 1) \in ReturnedPlaces =>
                       i < Len(Returned) /\ at[i + 1] = Append(at[i], 1)

\* at service with a expanded: both nodes with the id a are followed by
\* their children
C16_Witness ==
    /\ AskedVisible /\ store.architecture = Deep
    /\ store.detailLevel = "service"
    /\ store.expandedNodeIds = {"a"}
    /\ ReturnedNames = <<"R", "A", "B", "E", "S", "A2", "F", "B3">>

\* the places of the nodes that carry an id
Carrying(id) == {place \in Places : Get(NodeAt(place), "id") = JStr(id)}

\* C17: getNode returns the node that comes first in depth-first pre-order
\* among the nodes with the id asked for, at whatever depth they are, and
\* returns a node whenever there is one.
C17_FirstInPreOrder ==
    query.op = "getNode" /\ Loaded =>
        /\ Carrying(query.arg) # {} =>
              /\ query.ret.t = "object"
              /\ \E place \in Carrying(query.arg) :
                     /\ query.ret = NodeAt(place)
                     /\ \A other \in Carrying(query.arg) \ {place} :
                            PreOrderBefore(place, other)
        /\ Carrying(query.arg) = {} => query.ret = JUndef

\* the id b is at depth 3 of the first tree and on a later top-level node:
\* the node of the first tree is returned
C17_Witness ==
    /\ query.op = "getNode" /\ query.arg = "b"
    /\ store.architecture = Deep
    /\ Cardinality(Carrying("b")) = 2
    /\ NameOf(query.ret) = "B" /\ PlaceOf(query.ret) = <<1, 1, 1>>

\* the indices of the connections that touch an id
Touching(id) ==
    {i \in 1..Len(Connections) :
        \/ Get(Connections[i], "sourceId") = JStr(id)
        \/ Get(Connections[i], "targetId") = JStr(id)}

\* C18: getNodeConnections returns the connections whose sourceId or
\* targetId is the id asked for, each once, in the order of the connection
\* list, whether or not the ids of the connection are ids of nodes.
C18_EdgesTouching ==
    query.op = "getNodeConnections" /\ Loaded =>
        /\ query.ret.t = "array"
        /\ Len(Returned) = Cardinality(Touching(query.arg))
        /\ \E at \in [1..Len(Returned) -> Touching(query.arg)] :
               /\ \A i \in 1..Len(Returned) : Returned[i] = Connections[at[i]]
               /\ \A i, j \in 1..Len(Returned) : i < j => at[i] < at[j]

\* the id ghost is on two connections and on no node
C18_Witness ==
    /\ query.op = "getNodeConnections" /\ query.arg = "ghost"
    /\ store.architecture = Deep
    /\ Carrying("ghost") = {}
    /\ Len(Returned) = 2
    /\ Get(Returned[1], "id") = JStr("k3") /\ Get(Returned[2], "id") = JStr("k4")

\* C19: the computed helpers return a value in every state: getNode
\* undefined for an id that no node carries, getNodeConnections an empty
\* array for an id on no connection, and before a graph is set getNode
\* undefined and the other two an empty array.
C19_QueriesNeverFail ==
    /\ query.op = "getNode" =>
          /\ query.ret.t \in {"undefined", "object"}
          /\ ~Loaded \/ Carrying(query.arg) = {} => query.ret = JUndef
    /\ query.op = "getNodeConnections" =>
          /\ query.ret.t = "array"
          /\ ~Loaded \/ Touching(query.arg) = {} => query.ret = JArr(<<>>)
    /\ query.op = "getVisibleNodes" =>
          /\ query.ret.t = "array"
          /\ ~Loaded => query.ret = JArr(<<>>)

\* getNode called before a graph is set
C19_Witness ==
    /\ query.op = "getNode" /\ query.arg = "a"
    /\ store.architecture = JNull
    /\ query.ret = JUndef

\* C20: whatever actions and helpers have been called, the architecture of
\* the store is the value last passed to setArchitecture, and null before
\* the first call of it.
C20_GraphUnchanged ==
    store.architecture = (IF passed = NotPassed THEN JNull ELSE passed)

\* a graph was set, then the view was changed, and a helper was called
C20_Witness ==
    /\ passed = Deep /\ store.architecture = Deep
    /\ store.expandedNodeIds = {"a"}
    /\ store.selectedNodeId = JStr("b") /\ store.hoveredNodeId = JStr("a")
    /\ store.detailLevel = "code"
    /\ ~store.showConnections /\ ~store.showLabels /\ ~store.animateConnections
    /\ store.cameraPosition.x = 5
    /\ AskedVisible /\ Len(Returned) = 9

----------------------------------------------------------------------------
(* Reading a run of the command line, for the statements below *)

Exited == pc = "exited"
ExitedWith(code) == Exited /\ exitCode = JNum(code)

\* some line of the stream contains the text at its start
Says(stream, text) == \E i \in 1..Len(stream) : startsWith(stream[i], text)

\* the mode of the run, from what main printed when it chose it
InValidateMode == Len(stdout) > 0 /\ startsWith(stdout[1], "Validating: ")
InInputMode == Len(stdout) > 0 /\ stdout[1] = "SOAR - Architecture Visualization Mode"
InAnalysisMode == Says(stdout, "Analyzing repository: ")

\* the file the run is about, and what is at it
GivenPath ==
    IF InValidateMode THEN Options.validatePath.s ELSE Options.inputPath.s
FileExists == GivenPath \in DOMAIN disk
FileParses == FileExists /\ disk[GivenPath].kind = "file" /\ disk[GivenPath].parses
FilePasses == FileParses /\ validateArchitecture(disk[GivenPath].value).success
Violations ==
    IF FileParses /\ ~FilePasses
    THEN validateArchitecture(disk[GivenPath].value).errors ELSE <<>>

\* public/architecture.json is as it was before the run: absent
PublicUntouched == writes = <<>> /\ PublicPath \notin DOMAIN disk

----------------------------------------------------------------------------
(* C21: in the --validate mode the process exits with code 0 and prints    *)
(* "Validation PASSED" exactly when the file exists, parses as JSON and    *)
(* passes validate; it exits with code 1 and "File not found" when the     *)
(* file is missing, with "Invalid JSON" when it is not JSON, and with      *)
(* "Validation FAILED" and one line for each violation when the schema is  *)
(* violated; it never writes public/architecture.json and never starts the *)
(* server.                                                                 *)
C21_ValidateMode ==
    InValidateMode =>
        /\ PublicUntouched /\ ~server
        /\ Says(stdout, "Validation PASSED") <=> (Exited /\ FilePasses)
        /\ Exited =>
            /\ exitCode = IF FilePasses THEN JNum(0) ELSE JNum(1)
            /\ ~FileExists => Says(stderr, "Error: File not found")
            /\ (FileExists /\ disk[GivenPath].kind = "file" /\ ~FileParses)
                    => Says(stderr, "Error: Invalid JSON")
            /\ (FileParses /\ ~FilePasses) =>
                    /\ Says(stderr, "Validation FAILED")
                    /\ Len(Violations) >= 1
                    /\ \A i \in 1..Len(Violations) :
                            Says(stderr, "  - " \o Violations[i].path \o ": "
                                         \o Violations[i].message)

\* a run of --validate on a document with a violation has ended
C21_Witness ==
    /\ InValidateMode /\ ExitedWith(1)
    /\ FileParses /\ Len(Violations) >= 1
    /\ Says(stderr, "Validation FAILED")

----------------------------------------------------------------------------
(* C22: the --input mode loads, validates, writes public/architecture.json *)
(* and starts the server, in that order.  When the file is missing, is not *)
(* JSON, or lacks architecture, nodes or connections, the process exits    *)
(* with code 1 with nothing written and no server started; the file is     *)
(* written only for an input that passed the check.                        *)

\* the file holds an object with an architecture that has a nodes array
\* and a connections array
HasParts ==
    /\ FileParses
    /\ disk[GivenPath].value.t = "object"
    /\ Get(disk[GivenPath].value, "architecture").t = "object"
    /\ Get(Get(disk[GivenPath].value, "architecture"), "nodes").t = "array"
    /\ Get(Get(disk[GivenPath].value, "architecture"), "connections").t = "array"

C22_InputOrder ==
    InInputMode =>
        /\ server => writes = <<PublicPath>>
        /\ writes # <<>> =>
            /\ writes = <<PublicPath>>
            /\ HasParts
            /\ result.success = TRUE
            /\ revision = "schema" => FilePasses
            /\ disk[PublicPath] = JsonFile(result.data)
        /\ ~HasParts =>
            /\ pc \in {"input", "exited"}
            /\ Exited => exitCode = JNum(1)
            /\ PublicUntouched
            /\ ~server

\* a run of --input on a document without a nodes array has ended
C22_Witness ==
    /\ InInputMode /\ ExitedWith(1)
    /\ FileParses /\ ~HasParts
    /\ disk[GivenPath].value.t = "object"
    /\ Get(disk[GivenPath].value, "architecture").t = "object"
    /\ PublicUntouched

----------------------------------------------------------------------------
(* C23: in the analysis of a repository without --vertex, when             *)
(* ANTHROPIC_API_KEY is unset or empty the process exits with code 1 and   *)
(* an error that names ANTHROPIC_API_KEY, with no analyzer constructed and *)
(* no request made; the help flags, the --validate mode and the --input    *)
(* mode never ask for the key.                                             *)

\* the arguments ask for the analysis of a repository
AsksAnalysis ==
    /\ ~WantsHelp(argv)
    /\ Options # Thrown
    /\ ~Truthy(Options.validatePath) /\ ~Truthy(Options.inputPath)
    /\ Truthy(Options.repositoryPath)
WithVertex == \E i \in 1..Len(argv) : argv[i] = "--vertex"
KeyUnsetOrEmpty == env.ANTHROPIC_API_KEY \in {JUndef, JStr("")}
NamesKey(stream) ==
    \E i \in 1..Len(stream) :
        \E j \in 1..Len(stream[i]) :
            startsWith(SubSeq(stream[i], j, Len(stream[i])), "ANTHROPIC_API_KEY")

----------------------------------------------------------------------------
(* Reading a call of analyze, for the statements below *)

Enhanced == pc = "enhanced"
\* the forest the model answered with and the forest analyze returns
AnsweredForest == Get(Get(input.reply, "architecture"), "nodes")
EnhancedForest == Get(Get(result, "architecture"), "nodes")
EnhancedPlaces == PlacesIn(EnhancedForest, <<>>)
EnhancedNode(place) == NodeIn(EnhancedForest, place)
AnsweredNode(place) == NodeIn(AnsweredForest, place)

----------------------------------------------------------------------------
(* C24: after validateAndEnhance every node of the returned forest, at     *)
(* every depth, has a non-empty id, and no two nodes have the same id,     *)
(* the nodes whose id was generated included.                              *)
C24_UniqueIds ==
    Enhanced =>
        /\ \A place \in EnhancedPlaces : IsNonEmptyStr(Get(EnhancedNode(place), "id"))
        /\ \A p, q \in EnhancedPlaces :
                p # q => Get(EnhancedNode(p), "id") # Get(EnhancedNode(q), "id")

----------------------------------------------------------------------------
(* C25: after validateAndEnhance every node of the returned forest, at     *)
(* every depth, has a position, and a node that had a position in the      *)
(* answer of the model has the same one.                                   *)
C25_AllPositioned ==
    Enhanced =>
        \A place \in EnhancedPlaces :
            /\ Get(EnhancedNode(place), "position").t = "object"
            /\ Get(AnsweredNode(place), "position").t = "object" =>
                    Get(EnhancedNode(place), "position")
                        = Get(AnsweredNode(place), "position")

----------------------------------------------------------------------------
(* C26: the walk respects the depth asked for.  For every maxDepth given   *)
(* in the request, 0 included, no directory more than maxDepth levels      *)
(* below the root of the repository is read and no file of such a          *)
(* directory is listed; depth 5 is the limit only when no maxDepth is      *)
(* given.                                                                  *)

Gathered == pc \in {"gathered", "asked", "answered", "enhanced", "failed"}

\* how many levels below the root the directory at a relative path lies
LevelOf(rel) ==
    IF rel = "" THEN 0
    ELSE 1 + Cardinality({i \in 1..Len(rel) : SubSeq(rel, i, i) = "/"})
\* the level of the directory that holds the file at a relative path
LevelOfFile(path) == Cardinality({i \in 1..Len(path) : SubSeq(path, i, i) = "/"})

ListedPaths ==
    {data.files[i].path : i \in 1..Len(data.files)}
    \cup {data.packageManifests[i] : i \in 1..Len(data.packageManifests)}
    \cup {data.configFiles[i] : i \in 1..Len(data.configFiles)}
    \cup {data.entryPoints[i] : i \in 1..Len(data.entryPoints)}
ReadLevels == {LevelOf(data.read[i]) : i \in 1..Len(data.read)}

AskedDepth == input.request.maxDepth
DepthGiven == AskedDepth.t = "number" /\ AskedDepth # JNaN

C26_DepthRespected ==
    Gathered =>
        /\ DepthGiven =>
            /\ \A level \in ReadLevels : level <= AskedDepth.n
            /\ \A path \in ListedPaths : LevelOfFile(path) <= AskedDepth.n
        /\ AskedDepth = JUndef =>
            /\ \A level \in ReadLevels : level <= 5
            /\ \A path \in ListedPaths : LevelOfFile(path) <= 5

----------------------------------------------------------------------------
(* C27: the renderer draws a connection only when showConnections is on    *)
(* and both its sourceId and its targetId are ids of visible nodes.  An    *)
(* edge with an endpoint hidden by the detail level, or naming no node,    *)
(* draws nothing and raises no error, and every visible node is drawn.     *)

Rendered == query.op = "ArchitectureGraph" /\ query.ret # Nothing
RenderedEdges == Get(store.architecture, "connections").a
VisibleIds ==
    {Get(getVisibleNodes(store).a[i], "id") : i \in 1..Len(getVisibleNodes(store).a)}
Drawn(k) ==
    /\ k \in DOMAIN query.ret.connections
    /\ query.ret.connections[k].element = "ConnectionLine"
    /\ query.ret.connections[k].connection = RenderedEdges[k]

C27_DrawnEdges ==
    /\ query.op = "ArchitectureGraph" => query.ret # Thrown
    /\ Rendered =>
        /\ \A k \in 1..Len(RenderedEdges) :
               Drawn(k) <=> /\ store.showConnections
                            /\ Get(RenderedEdges[k], "sourceId") \in VisibleIds
                            /\ Get(RenderedEdges[k], "targetId") \in VisibleIds
        /\ \A k \in DOMAIN query.ret.connections :
               Drawn(k) \/ query.ret.connections[k] = Nothing
        /\ Len(query.ret.nodes) = Len(getVisibleNodes(store).a)
        /\ \A i \in 1..Len(query.ret.nodes) :
               /\ query.ret.nodes[i].element = "ArchitectureNodeMesh"
               /\ query.ret.nodes[i].node = getVisibleNodes(store).a[i]

\* the graph Deep at overview with connections shown: r -> a has a hidden
\* target, b -> ghost and ghost -> r name no node, s -> r is drawn, and the
\* three visible nodes are drawn
C27_Witness ==
    /\ Rendered
    /\ store.architecture = Deep /\ store.detailLevel = "overview"
    /\ store.expandedNodeIds = {} /\ store.showConnections
    /\ JStr("a") \notin VisibleIds /\ ~Drawn(1)
    /\ ~Drawn(3) /\ ~Drawn(4)
    /\ Drawn(5)
    /\ Len(query.ret.nodes) = 3

----------------------------------------------------------------------------
(* C28: disclosure is monotone.  For a fixed graph, raising the detail     *)
(* level or adding an id to the expanded set removes no node from the      *)
(* result of getVisibleNodes: the earlier result is a subsequence of the   *)
(* later one.                                                              *)

LevelOrder == <<"overview", "service", "module", "code">>
RankOf(level) == CHOOSE k \in 1..4 : LevelOrder[k] = level
\* the ids that may be added: those of the graphs, and one of no node
AddedIds == {"r", "a", "b", "c", "d", "e", "s", "f", "ghost"}

RECURSIVE IsSubsequence(_, _)
IsSubsequence(earlier, later) ==
    IF earlier = <<>> THEN TRUE
    ELSE IF later = <<>> THEN FALSE
    ELSE IF Head(earlier) = Head(later)
         THEN IsSubsequence(Tail(earlier), Tail(later))
         ELSE IsSubsequence(earlier, Tail(later))

VisibleAt(level, expanded) ==
    getVisibleNodes([store EXCEPT !.detailLevel = level,
                                  !.expandedNodeIds = expanded]).a
VisibleNow == getVisibleNodes(store).a

C28_MonotoneDisclosure ==
    store.architecture # JNull =>
        \A k \in RankOf(store.detailLevel)..4 :
            \A more \in {{}} \cup {{id} : id \in AddedIds} :
                IsSubsequence(VisibleNow,
                              VisibleAt(LevelOrder[k], store.expandedNodeIds \cup more))

\* the graph Deep at service level with b expanded: raising the level to
\* module shows more, and so does expanding a, and nothing shown is lost
C28_Witness ==
    /\ store.architecture = Deep /\ store.detailLevel = "service"
    /\ store.expandedNodeIds = {"b"}
    /\ query.op = "getVisibleNodes" /\ query.ret.a = VisibleNow
    /\ Len(VisibleAt("module", {"b"})) > Len(VisibleNow)
    /\ Len(VisibleAt("service", {"a", "b"})) > Len(VisibleNow)
    /\ IsSubsequence(VisibleNow, VisibleAt("module", {"b"}))
    /\ IsSubsequence(VisibleNow, VisibleAt("service", {"a", "b"}))

----------------------------------------------------------------------------
(* C29: toggleNodeExpanded(id) flips the membership of exactly that id in  *)
(* expandedNodeIds and changes no other id and no other field of the       *)
(* store.  Applied twice with the same id it restores the expanded set,    *)
(* so an id is expanded exactly when it was toggled an odd number of       *)
(* times.                                                                  *)

Flipped(set, id) == IF id \in set THEN set \ {id} ELSE set \cup {id}
ToggledOddly == store.expandedNodeIds = toggles
TwiceRestores ==
    \A id \in ToggleArgs :
        toggleNodeExpanded(toggleNodeExpanded(store, id), id) = store
ExactFlip ==
    toggles' # toggles =>
        \E id \in ToggleArgs :
            /\ toggles' = Flipped(toggles, id)
            /\ store' = [store EXCEPT !.expandedNodeIds = Flipped(@, id)]

C29_ToggleFlips == [](ToggledOddly /\ TwiceRestores) /\ [][ExactFlip]_vars

\* a and b were toggled once and r twice or never: a and b are expanded,
\* r is not, and one more toggle of a leaves b alone
C29_Witness ==
    /\ toggles = {"a", "b"}
    /\ store.expandedNodeIds = {"a", "b"}
    /\ toggleNodeExpanded(store, "a").expandedNodeIds = {"b"}
    /\ toggleNodeExpanded(store, "r").expandedNodeIds = {"a", "b", "r"}

----------------------------------------------------------------------------
(* C30: setArchitecture(g) replaces the graph, sets error to null and      *)
(* changes nothing else: selectedNodeId, hoveredNodeId, expandedNodeIds,   *)
(* detailLevel and isLoading keep their values.  The view-state may then   *)
(* name ids that the new graph does not contain; getNode returns           *)
(* undefined for such an id and getVisibleNodes returns a list of nodes of *)
(* the graph with every top-level node in it.                              *)

ReplacesGraphOnly ==
    \A arch \in StoreGraphs :
        setArchitecture(store, arch) = [store EXCEPT !.architecture = arch,
                                                     !.error = JNull]
\* a step that passes another graph
GraphReplaced ==
    passed' # passed =>
        /\ store' = [store EXCEPT !.architecture = passed', !.error = JNull]
        /\ store'.selectedNodeId = store.selectedNodeId
        /\ store'.hoveredNodeId = store.hoveredNodeId
        /\ store'.expandedNodeIds = store.expandedNodeIds
        /\ store'.detailLevel = store.detailLevel
        /\ store'.isLoading = store.isLoading

GraphIds == {IdAt(place) : place \in Places}
ViewIds ==
    store.expandedNodeIds
    \cup {v.s : v \in {store.selectedNodeId, store.hoveredNodeId} \ {JNull}}
DanglingIds == ViewIds \ GraphIds
DanglingTolerated ==
    Loaded =>
        /\ \A id \in DanglingIds : getNode(store, id) = JUndef
        /\ getVisibleNodes(store).t = "array"
        /\ \A i \in 1..Len(VisibleNow) :
               \E place \in Places : NodeAt(place) = VisibleNow[i]
        /\ \A k \in 1..Len(Forest.a) :
               \E i \in 1..Len(VisibleNow) : VisibleNow[i] = Forest.a[k]

C30_ReplaceKeepsView ==
    [](ReplacesGraphOnly /\ DanglingTolerated) /\ [][GraphReplaced]_vars

\* b was selected and expanded, the store was loading, and then the graph
\* Flat, which has no b, was set: the view still names b
C30_Witness ==
    /\ passed = Flat /\ store.architecture = Flat
    /\ store.error = JNull /\ store.isLoading = JBool(TRUE)
    /\ store.selectedNodeId = JStr("b") /\ store.hoveredNodeId = JStr("a")
    /\ store.expandedNodeIds = {"a", "b"} /\ store.detailLevel = "overview"
    /\ DanglingIds = {"b"}
    /\ getNode(store, "b") = JUndef
    /\ Len(VisibleNow) = 2

====
